---- MODULE Spec2Model ----
(***************************************************************************)
(* Verification model of the meme_scanner signal ledger (tracker.py), its  *)
(* outcome resolution (_fetch_outcome) and the upstream candle fetch with  *)
(* rate-limit retries (tracker.py, gt_fetcher.py).                         *)
(*                                                                         *)
(* Conventions.                                                            *)
(*  - Times are Unix seconds.  Prices are positive integers in an          *)
(*    arbitrary minimal price unit (the code uses floats).                 *)
(*  - A Python value that may be None / "" / NaN is a sequence of length   *)
(*    at most one: <<>> is None (or the empty CSV cell), <<v>> is v.       *)
(*  - pnl_pct is kept in hundredths of a percent, i.e. the integer         *)
(*    100 * round(x, 2).                                                   *)
(***************************************************************************)
EXTENDS Integers, Sequences, FiniteSets, TLC

VARIABLES
    ledger,     \* logs/signal_log.csv: the sequence of rows, oldest first
    now,        \* wall clock, Unix seconds
    call,       \* the tracker call the last step made: arguments, return, fetches
    fo_in,      \* arguments of one _fetch_outcome evaluation
    fo_out,     \* what that evaluation returned
    rq,         \* one upstream candle fetch: the retry loop's position
    calc,       \* one evaluation of calculate_score: sub-scores and result
    bt,         \* one run of calc_reproducibility: the frame, the loop, the result
    disk,       \* the logs directory: the archives, rotate_log's position
    bot         \* the bot process: its event loop, its jobs, its request clock

ledgerVars  == <<ledger, now, call>>
outcomeVars == <<fo_in, fo_out, calc, bt>>
fetchVars   == <<rq>>
botVars     == <<bot>>
fileVars    == <<disk>>
vars        == <<ledger, now, call, fo_in, fo_out, calc, bt, rq, bot, disk>>

-----------------------------------------------------------------------------
(* Program constants                                                       *)

OUTCOME_CHECK_DELAY   == 3600
OUTCOME_UNKNOWN_AFTER == 2 * 3600
OUTCOME_MAX_AGE       == 10 * 3600
MAX_RETRIES           == 3
RETRY_WAIT            == 10
candle_sec            == 300      \* width of one upstream candle
BEFORE_TS_OFFSET      == 3900     \* before_ts = signal_unix + 3900
WINDOW_SEC            == 3600     \* the post-signal window and the +60m mark
MARK_15M              == 900
MARK_30M              == 1800

-----------------------------------------------------------------------------
(* Bounds of the model                                                     *)

MaxRecords == 2      \* rows the ledger may hold
MaxHours   == 11     \* the clock stops after this many hours
MaxCandles == 3      \* candles in one enumerated upstream response

-----------------------------------------------------------------------------
(* Optional values and small helpers                                       *)

None      == <<>>
Some(v)   == <<v>>
IsNone(o) == o = <<>>
Val(o)    == o[1]

RECURSIVE Reverse(_)
Reverse(s) == IF s = <<>> THEN <<>> ELSE Append(Reverse(Tail(s)), Head(s))

Max2(a, b) == IF a >= b THEN a ELSE b
Min2(a, b) == IF a <= b THEN a ELSE b

\* round(n / d * 100, 2) in hundredths: n * 10000 / d rounded to the nearest
\* integer, ties to even (Python's round on an exactly representable tie).
Round2Pct(n, d) ==
    LET x == n * 10000
        q == x \div d
        r == x % d
    IN  IF 2 * r < d THEN q
        ELSE IF 2 * r > d THEN q + 1
        ELSE IF q % 2 = 0 THEN q ELSE q + 1

-----------------------------------------------------------------------------
(* _fetch_outcome, lines 505-604: the analysis of one upstream response    *)

\* A candle is [timestamp, high, low, close]; open and volume are parsed by
\* the code and never read.
Candle(ts, h, l, c) == [timestamp |-> ts, high |-> h, low |-> l, close |-> c]

signal_candle(signal_unix) == (signal_unix \div candle_sec) * candle_sec

\* Variant of InWindow without the upper end of the window.
InWindowOpenEnd(c, signal_unix) ==
    c.timestamp >= signal_candle(signal_unix)

\* Lines 521-524: the rows of the 60-minute window.
InWindow(c, signal_unix) ==
    /\ c.timestamp >= signal_candle(signal_unix)
    /\ c.timestamp <= signal_unix + WINDOW_SEC

WindowOf(df, signal_unix) ==
    LET Test(c) == InWindow(c, signal_unix) IN SelectSeq(df, Test)

\* Variant of price_at that takes the first matching row (iloc[0]).
price_at_first(df, target_unix) ==
    LET Test(c) == c.timestamp <= target_unix
        cands   == SelectSeq(df, Test)
    IN  IF cands = <<>> THEN None ELSE Some(cands[1].close)

\* price_at: the close of the last row of df at or before target_unix.
price_at(df, target_unix) ==
    LET Test(c) == c.timestamp <= target_unix
        cands   == SelectSeq(df, Test)
    IN  IF cands = <<>> THEN None ELSE Some(cands[Len(cands)].close)

RECURSIVE InsertByTimestamp(_, _)
InsertByTimestamp(c, s) ==
    IF s = <<>> THEN <<c>>
    ELSE IF c.timestamp < Head(s).timestamp THEN <<c>> \o s
    ELSE <<Head(s)>> \o InsertByTimestamp(c, Tail(s))

\* window.sort_values("timestamp")
RECURSIVE SortByTimestamp(_)
SortByTimestamp(s) ==
    IF s = <<>> THEN <<>>
    ELSE InsertByTimestamp(s[Len(s)], SortByTimestamp(SubSeq(s, 1, Len(s) - 1)))

RECURSIVE MaxHigh(_)
MaxHigh(w) == IF Len(w) = 1 THEN w[1].high ELSE Max2(w[1].high, MaxHigh(Tail(w)))

RECURSIVE MinLow(_)
MinLow(w) == IF Len(w) = 1 THEN w[1].low ELSE Min2(w[1].low, MinLow(Tail(w)))

NoHit == [sl_hit |-> FALSE, tp_hit |-> FALSE, first_hit |-> "None"]

\* Variant of HitStep that stops recording touches after the first one.
HitStepFirstOnly(st, candle, sl_price, tp_price) ==
    LET hit_sl == candle.low  <= sl_price
        hit_tp == candle.high >= tp_price
    IN  IF st.first_hit = "None"
        THEN IF hit_sl /\ hit_tp
             THEN [sl_hit |-> TRUE, tp_hit |-> TRUE, first_hit |-> "BOTH"]
             ELSE IF hit_sl
             THEN [sl_hit |-> TRUE, tp_hit |-> st.tp_hit, first_hit |-> "LOSS"]
             ELSE IF hit_tp
             THEN [sl_hit |-> st.sl_hit, tp_hit |-> TRUE, first_hit |-> "WIN"]
             ELSE st
        ELSE st

\* Variant of HitStep without the same-candle branch: the target wins a tie.
HitStepNoTie(st, candle, sl_price, tp_price) ==
    LET hit_sl == candle.low  <= sl_price
        hit_tp == candle.high >= tp_price
    IN  IF st.first_hit = "None"
        THEN IF hit_tp
             THEN [sl_hit |-> hit_sl, tp_hit |-> TRUE, first_hit |-> "WIN"]
             ELSE IF hit_sl
             THEN [sl_hit |-> TRUE, tp_hit |-> st.tp_hit, first_hit |-> "LOSS"]
             ELSE st
        ELSE [sl_hit    |-> st.sl_hit \/ hit_sl,
              tp_hit    |-> st.tp_hit \/ hit_tp,
              first_hit |-> st.first_hit]

\* One iteration of the touch loop (lines 550-568).
HitStep(st, candle, sl_price, tp_price) ==
    LET hit_sl == candle.low  <= sl_price
        hit_tp == candle.high >= tp_price
    IN  IF st.first_hit = "None"
        THEN IF hit_sl /\ hit_tp
             THEN [sl_hit |-> TRUE, tp_hit |-> TRUE, first_hit |-> "BOTH"]
             ELSE IF hit_sl
             THEN [sl_hit |-> TRUE, tp_hit |-> st.tp_hit, first_hit |-> "LOSS"]
             ELSE IF hit_tp
             THEN [sl_hit |-> st.sl_hit, tp_hit |-> TRUE, first_hit |-> "WIN"]
             ELSE st
        ELSE [sl_hit    |-> st.sl_hit \/ hit_sl,
              tp_hit    |-> st.tp_hit \/ hit_tp,
              first_hit |-> st.first_hit]

RECURSIVE ScanHits(_, _, _, _)
ScanHits(w, st, sl_price, tp_price) ==
    IF w = <<>> THEN st
    ELSE ScanHits(Tail(w), HitStep(st, Head(w), sl_price, tp_price),
                  sl_price, tp_price)

\* Variant of ClassifyOutcome with p60 >= entry_price for WIN+.
ClassifyOutcomeGe(first_hit, p60, entry_price) ==
    IF first_hit = "WIN" THEN "WIN"
    ELSE IF first_hit = "LOSS" THEN "LOSS"
    ELSE IF first_hit = "BOTH" THEN "BOTH"
    ELSE IF ~IsNone(p60) /\ Val(p60) >= entry_price THEN "WIN+"
    ELSE IF ~IsNone(p60) THEN "LOSS-"
    ELSE "UNKNOWN"

\* Lines 570-582.
ClassifyOutcome(first_hit, p60, entry_price) ==
    IF first_hit = "WIN" THEN "WIN"
    ELSE IF first_hit = "LOSS" THEN "LOSS"
    ELSE IF first_hit = "BOTH" THEN "BOTH"
    ELSE IF ~IsNone(p60) /\ Val(p60) > entry_price THEN "WIN+"
    ELSE IF ~IsNone(p60) THEN "LOSS-"
    ELSE "UNKNOWN"

\* Lines 584-587.
PnlPct(p60, entry_price) ==
    IF IsNone(p60) THEN None
    ELSE Some(Round2Pct(Val(p60) - entry_price, entry_price))

\* Lines 505-600 on a parsed response: raw is ohlcv_list as the upstream
\* sends it (newest first); clock is datetime.now().
AnalyzeOhlcv(raw, signal_unix, entry_price, sl_price, tp_price, clock) ==
    LET df     == Reverse(raw)
        window == WindowOf(df, signal_unix)
    IN  IF window = <<>> THEN None
        ELSE
          LET p15  == price_at(df, signal_unix + MARK_15M)
              p30  == price_at(df, signal_unix + MARK_30M)
              p60  == price_at(df, signal_unix + WINDOW_SEC)
              hits == ScanHits(SortByTimestamp(window), NoHit, sl_price, tp_price)
          IN  Some([outcome_checked_at |-> Some(clock),
                    price_15m |-> p15,
                    price_30m |-> p30,
                    price_60m |-> p60,
                    high_60m  |-> Some(MaxHigh(window)),
                    low_60m   |-> Some(MinLow(window)),
                    sl_hit    |-> Some(hits.sl_hit),
                    tp_hit    |-> Some(hits.tp_hit),
                    outcome   |-> ClassifyOutcome(hits.first_hit, p60, entry_price),
                    pnl_pct   |-> PnlPct(p60, entry_price)])

-----------------------------------------------------------------------------
(* The upstream candle endpoint and the retry loops                        *)

\* What one requests.get + raise_for_status can produce.  kind "exception"
\* is a timeout or connection error raised by requests.get; otherwise the
\* upstream answered with an HTTP status, and for status 200 with a body
\* that either parses (Ok) to ohlcv_list or does not (Http(200)).
HttpStatuses == {200, 429, 404, 500}

Exc == [kind |-> "exception", status |-> 0, valid |-> FALSE, ohlcv_list |-> <<>>]
Http(status) ==
    [kind |-> "http", status |-> status, valid |-> FALSE, ohlcv_list |-> <<>>]
Ok(raw) == [kind |-> "http", status |-> 200, valid |-> TRUE, ohlcv_list |-> raw]

\* Not an answer of the upstream: the call of _fetch_outcome in
\* check_outcomes (tracker.py:352-358) raises before its first request, as
\* when float() rejects a cell of the row.
Raises == [kind |-> "raises", status |-> 0, valid |-> FALSE, ohlcv_list |-> <<>>]

\* State of a retry loop: attempt is the loop variable, requests counts the
\* requests.get calls made, sleeps lists the time.sleep arguments in order,
\* wait is the pending sleep, resp the response kept after a break.
RetryInit ==
    [pc |-> "request", attempt |-> 0, requests |-> 0, sleeps |-> <<>>,
     wait |-> 0, resp |-> None]

\* Variant of TrackerRequest that also retries after the last attempt.
TrackerRequestRetryLast(st, r) ==
    LET sent == [st EXCEPT !.requests = st.requests + 1] IN
    IF r.kind = "exception"
    THEN [sent EXCEPT !.pc = "done"]
    ELSE IF r.status < 400
    THEN [sent EXCEPT !.pc = "done", !.resp = Some(r)]
    ELSE IF r.status = 429 /\ st.attempt <= MAX_RETRIES
    THEN [sent EXCEPT !.pc = "sleep", !.wait = RETRY_WAIT * (st.attempt + 1)]
    ELSE [sent EXCEPT !.pc = "done"]

\* tracker._fetch_outcome, lines 483-503: one pass of the loop body.
TrackerRequest(st, r) ==
    LET sent == [st EXCEPT !.requests = st.requests + 1] IN
    IF r.kind = "exception"
    THEN [sent EXCEPT !.pc = "done"]
    ELSE IF r.status < 400
    THEN [sent EXCEPT !.pc = "done", !.resp = Some(r)]
    ELSE IF r.status = 429 /\ st.attempt < MAX_RETRIES
    THEN [sent EXCEPT !.pc = "sleep", !.wait = RETRY_WAIT * (st.attempt + 1)]
    ELSE [sent EXCEPT !.pc = "done"]

\* Variant of GtRequest that retries after every HTTP error.
GtRequestRetryAny(st, r) ==
    LET sent == [st EXCEPT !.requests = st.requests + 1] IN
    IF r.kind = "exception"
    THEN [sent EXCEPT !.pc = "done"]
    ELSE IF r.status < 400
    THEN IF r.valid
         THEN [sent EXCEPT !.pc = "done", !.resp = Some(r)]
         ELSE [sent EXCEPT !.pc = "done"]
    ELSE IF st.attempt < MAX_RETRIES
    THEN [sent EXCEPT !.pc = "sleep", !.wait = RETRY_WAIT * (st.attempt + 1)]
    ELSE [sent EXCEPT !.pc = "done"]

\* gt_fetcher.fetch_ohlcv, lines 57-89: one pass of the loop body.  The
\* body is parsed inside the try, so a body that does not parse returns None.
GtRequest(st, r) ==
    LET sent == [st EXCEPT !.requests = st.requests + 1] IN
    IF r.kind = "exception"
    THEN [sent EXCEPT !.pc = "done"]
    ELSE IF r.status < 400
    THEN IF r.valid
         THEN [sent EXCEPT !.pc = "done", !.resp = Some(r)]
         ELSE [sent EXCEPT !.pc = "done"]
    ELSE IF r.status = 429 /\ st.attempt < MAX_RETRIES
    THEN [sent EXCEPT !.pc = "sleep", !.wait = RETRY_WAIT * (st.attempt + 1)]
    ELSE [sent EXCEPT !.pc = "done"]

\* time.sleep(wait); continue: the for loop goes on to the next attempt of
\* range(_MAX_RETRIES + 1) or, the range exhausted, to the return None that
\* follows the loop.
RetrySleep(st) ==
    [st EXCEPT !.pc = IF st.attempt + 1 <= MAX_RETRIES THEN "request" ELSE "done",
               !.attempt = st.attempt + 1,
               !.sleeps = Append(st.sleeps, st.wait), !.wait = 0]

\* The tracker loop run to its end against the responses resps[1..4].
RECURSIVE TrackerRetryLoop(_, _)
TrackerRetryLoop(st, resps) ==
    IF st.pc = "done" THEN st
    ELSE IF st.pc = "sleep" THEN TrackerRetryLoop(RetrySleep(st), resps)
    ELSE TrackerRetryLoop(TrackerRequest(st, resps[st.attempt + 1]), resps)

\* _fetch_outcome once its retry loop has ended in state st: None if the
\* loop returned None or the body does not parse, else the analysis.
OutcomeAfterLoop(st, signal_unix, entry_price, sl_price, tp_price, clock) ==
    IF IsNone(st.resp) THEN None
    ELSE IF ~Val(st.resp).valid THEN None
    ELSE AnalyzeOhlcv(Val(st.resp).ohlcv_list, signal_unix,
                      entry_price, sl_price, tp_price, clock)

\* _fetch_outcome as a whole: the retry loop, the parse, the analysis.
fetch_outcome(resps, signal_unix, entry_price, sl_price, tp_price, clock) ==
    OutcomeAfterLoop(TrackerRetryLoop(RetryInit, resps), signal_unix,
                     entry_price, sl_price, tp_price, clock)

\* fetch_ohlcv once its retry loop has ended: None, or the candles oldest
\* first.
OhlcvAfterLoop(st) ==
    IF IsNone(st.resp) THEN None ELSE Some(Reverse(Val(st.resp).ohlcv_list))

-----------------------------------------------------------------------------
(* Enumerated upstream candle data                                         *)

\* Entry, stop and target of a scored pair.
PriceSetups ==
    { [entry_price |-> 100, sl_price |-> 95, tp_price |-> 110],
      [entry_price |-> 96,  sl_price |-> 90, tp_price |-> 104] }

\* Candle shapes relative to a price setup.
Shapes == {"up", "down", "flat", "tp", "sl", "both"}

ShapedCandle(ts, shape, ps) ==
    LET e == ps.entry_price IN
    CASE shape = "up"   -> Candle(ts, e + 2, e - 1, e + 1)
      [] shape = "down" -> Candle(ts, e + 1, e - 2, e - 1)
      [] shape = "flat" -> Candle(ts, e, e, e)
      [] shape = "tp"   -> Candle(ts, ps.tp_price, e - 1, ps.tp_price - 1)
      [] shape = "sl"   -> Candle(ts, e + 1, ps.sl_price, ps.sl_price + 1)
      [] shape = "both" -> Candle(ts, ps.tp_price + 1, ps.sl_price - 1, e + 3)

\* Candle start times relative to the candle holding the signal: one candle
\* before the window, the signal candle, +20 min, +60 min, +65 min.
Offsets == <<0 - 300, 0, 1200, 3600, 3900>>

\* Strictly increasing index lists into Offsets, at most n long.
RECURSIVE IndexLists(_, _)
IndexLists(n, lo) ==
    IF n = 0 THEN {<<>>}
    ELSE {<<>>} \cup
         UNION { { <<i>> \o t : t \in IndexLists(n - 1, i + 1) } :
                 i \in lo..Len(Offsets) }

\* The ascending candle series over the given offsets with the given shapes.
SeriesOf(idx, shp, signal_unix, ps) ==
    [k \in 1..Len(idx) |->
        ShapedCandle(signal_candle(signal_unix) + Offsets[idx[k]], shp[k], ps)]

\* Every ohlcv_list (newest first) of at most MaxCandles candles that the
\* upstream can send for before_timestamp = signal_unix + BEFORE_TS_OFFSET.
RawLists(signal_unix, ps) ==
    LET before_ts == signal_unix + BEFORE_TS_OFFSET IN
    UNION { { Reverse(SeriesOf(idx, shp, signal_unix, ps)) :
              shp \in [1..Len(idx) -> Shapes] } :
            idx \in { l \in IndexLists(MaxCandles, 1) :
                        \A k \in DOMAIN l :
                           signal_candle(signal_unix) + Offsets[l[k]] <= before_ts } }

\* Signal times: on a candle boundary and 100 s into a candle.
SignalTimes == {7200, 7300}

-----------------------------------------------------------------------------
(* Specification SpecOutcome: _fetch_outcome on enumerated inputs          *)

IdleLedger == <<>>
IdleCall   == [op |-> "none"]
IdleRq     == [fetcher |-> "none"]
IdleFoIn   == [signal_unix |-> 0]
IdleFoOut  == [pc |-> "idle"]
IdleBot    == [loop |-> "none"]
IdleCalc   == [pc |-> "idle"]
IdleDisk   == [rot |-> "none"]
IdleBt     == [pc |-> "idle"]

InitOutcome ==
    /\ ledger = IdleLedger /\ now = 0 /\ call = IdleCall /\ rq = IdleRq
    /\ bot = IdleBot /\ calc = IdleCalc /\ disk = IdleDisk /\ bt = IdleBt
    /\ \E su \in SignalTimes, ps \in PriceSetups :
         \E raw \in RawLists(su, ps) :
            fo_in = [raw |-> raw, signal_unix |-> su,
                     entry_price |-> ps.entry_price,
                     sl_price |-> ps.sl_price, tp_price |-> ps.tp_price]
    /\ fo_out = [pc |-> "args"]

\* Call _fetch_outcome; the upstream answers the first request with fo_in.raw.
FetchOutcomeCall ==
    /\ fo_out.pc = "args"
    /\ fo_out' = [pc |-> "returned",
                  value |-> fetch_outcome([i \in 1..(MAX_RETRIES + 1) |-> Ok(fo_in.raw)],
                                          fo_in.signal_unix, fo_in.entry_price,
                                          fo_in.sl_price, fo_in.tp_price,
                                          fo_in.signal_unix + WINDOW_SEC)]
    /\ UNCHANGED <<fo_in, calc, bt, ledgerVars, fetchVars, botVars, fileVars>>

NextOutcome == FetchOutcomeCall

SpecOutcome == InitOutcome /\ [][NextOutcome]_vars

-----------------------------------------------------------------------------
(* Properties of outcome resolution (SpecOutcome)                          *)

\* The candles of the evaluated response that lie in the post-signal window,
\* written out from the window's bounds.
FoWindow ==
    { fo_in.raw[i] : i \in { j \in DOMAIN fo_in.raw :
        /\ fo_in.raw[j].timestamp >= fo_in.signal_unix - (fo_in.signal_unix % 300)
        /\ fo_in.raw[j].timestamp <= fo_in.signal_unix + 3600 } }

TouchesSl(c) == c.low  <= fo_in.sl_price
TouchesTp(c) == c.high >= fo_in.tp_price

\* The chronologically first window candles touching the stop or the target
\* (at most one, timestamps being unique).
FoFirstTouch ==
    { c \in FoWindow :
        /\ TouchesSl(c) \/ TouchesTp(c)
        /\ \A d \in FoWindow :
              d.timestamp < c.timestamp => ~(TouchesSl(d) \/ TouchesTp(d)) }

\* The close of the latest candle starting at or before minute 60.
FoMinute60 ==
    { c.close : c \in { d \in { fo_in.raw[i] : i \in DOMAIN fo_in.raw } :
        /\ d.timestamp <= fo_in.signal_unix + 3600
        /\ \A e \in { fo_in.raw[i] : i \in DOMAIN fo_in.raw } :
              e.timestamp <= fo_in.signal_unix + 3600 => e.timestamp <= d.timestamp } }

FoReturned == fo_out.pc = "returned"
FoResult   == Val(fo_out.value)

\* C7: if the first window candle touching the stop or the target touches
\* both, the outcome is BOTH, whatever later candles do.
C7_SameCandleIsBoth ==
    (FoReturned /\ \E c \in FoFirstTouch : TouchesSl(c) /\ TouchesTp(c))
        => (~IsNone(fo_out.value) /\ FoResult.outcome = "BOTH")

\* C7 witness: a double-touch candle came first, a later candle touched the
\* target alone, and the call returned BOTH.
C7_Witness ==
    /\ FoReturned
    /\ \E c \in FoFirstTouch : TouchesSl(c) /\ TouchesTp(c)
    /\ \E d \in FoWindow : TouchesTp(d) /\ ~TouchesSl(d)
    /\ ~IsNone(fo_out.value) /\ FoResult.outcome = "BOTH"

\* The first-touch part of C8: target-only first gives WIN, stop-only first
\* gives LOSS.
C8_FirstTouchDecides ==
    /\ (\E c \in FoFirstTouch : TouchesTp(c) /\ ~TouchesSl(c))
          => (~IsNone(fo_out.value) /\ FoResult.outcome = "WIN")
    /\ (\E c \in FoFirstTouch : TouchesSl(c) /\ ~TouchesTp(c))
          => (~IsNone(fo_out.value) /\ FoResult.outcome = "LOSS")

\* C8 as stated: with a target-only (stop-only) candle first the outcome is
\* WIN (LOSS) and pnl_pct is exactly (price_60m - entry) / entry * 100 for the
\* minute-60 price.  pnl_pct is held in hundredths of a percent.
C8_PnlExact ==
    (FoReturned /\ \E c \in FoFirstTouch : TouchesSl(c) # TouchesTp(c))
        => /\ C8_FirstTouchDecides
           /\ FoResult.price_60m \in { Some(p) : p \in FoMinute60 }
           /\ ~IsNone(FoResult.pnl_pct)
           /\ Val(FoResult.pnl_pct) * fo_in.entry_price
                 = (Val(FoResult.price_60m) - fo_in.entry_price) * 10000

\* C8 amended: the same, with pnl_pct equal to that quotient rounded to two
\* decimal places (within half a hundredth of a percent of it).
C8_PnlRounded ==
    (FoReturned /\ \E c \in FoFirstTouch : TouchesSl(c) # TouchesTp(c))
        => /\ C8_FirstTouchDecides
           /\ FoResult.price_60m \in { Some(p) : p \in FoMinute60 }
           /\ ~IsNone(FoResult.pnl_pct)
           /\ LET err == Val(FoResult.pnl_pct) * fo_in.entry_price
                          - (Val(FoResult.price_60m) - fo_in.entry_price) * 10000
              IN  2 * err <= fo_in.entry_price /\ 2 * err >= 0 - fo_in.entry_price

\* C8 witness: the target was touched alone at minute 20, the stop was
\* touched later, the minute-60 close differs from the target, and the call
\* returned WIN with a pnl that is not a whole hundredth of a percent
\* before rounding.
C8_Witness ==
    /\ FoReturned
    /\ \E c \in FoFirstTouch : TouchesTp(c) /\ ~TouchesSl(c)
    /\ \E d \in FoWindow : TouchesSl(d)
    /\ ~IsNone(fo_out.value) /\ FoResult.outcome = "WIN"
    /\ Val(FoResult.price_60m) # fo_in.tp_price
    /\ ((Val(FoResult.price_60m) - fo_in.entry_price) * 10000) % fo_in.entry_price # 0

\* C9: when no window candle touches the stop or the target, the outcome is
\* WIN+ exactly when the minute-60 price is above entry and LOSS- exactly
\* when it is at or below entry.
C9_NoTouchByMinute60 ==
    (FoReturned /\ FoWindow # {} /\ FoFirstTouch = {})
        => /\ ~IsNone(fo_out.value)
           /\ \A p \in FoMinute60 :
                /\ (FoResult.outcome = "WIN+")  <=> (p > fo_in.entry_price)
                /\ (FoResult.outcome = "LOSS-") <=> (p <= fo_in.entry_price)
           /\ FoMinute60 # {}

\* C9 witness: no touch and a minute-60 price equal to entry gave LOSS-.
C9_Witness ==
    /\ FoReturned /\ FoWindow # {} /\ FoFirstTouch = {}
    /\ FoMinute60 = {fo_in.entry_price}
    /\ ~IsNone(fo_out.value) /\ FoResult.outcome = "LOSS-"

-----------------------------------------------------------------------------
(* The signal ledger: record_signal and check_outcomes                     *)

\* The columns of a row that the tracker reads or rewrites.  The remaining
\* columns (symbol, scores, band parameters, gecko_url) are copied from the
\* arguments by record_signal and never read or written afterwards.
PostFields ==
    {"outcome_checked_at", "price_15m", "price_30m", "price_60m", "high_60m",
     "low_60m", "sl_hit", "tp_hit", "outcome", "pnl_pct"}

\* The scored evaluations a scan can hand to record_signal: pair_info,
\* result, pool_address, notified, notify_threshold.
Evaluations ==
    { [token_address |-> "tokA", pool_address |-> "poolA", entry_price |-> 100,
       sl_price |-> 95, tp_price |-> 110, score_total |-> 70,
       notified |-> TRUE, notify_threshold |-> 70],
      [token_address |-> "tokB", pool_address |-> "poolB", entry_price |-> 96,
       sl_price |-> 90, tp_price |-> 104, score_total |-> 65,
       notified |-> FALSE, notify_threshold |-> 70] }

TokenAddresses == { ev.token_address : ev \in Evaluations }

\* Variant of NewRow that stamps the new row as checked.
NewRowStamped(ev, signal_id, clock) ==
    [signal_id          |-> signal_id,
     signal_time_unix   |-> clock,
     token_address      |-> ev.token_address,
     pool_address       |-> ev.pool_address,
     entry_price        |-> ev.entry_price,
     sl_price           |-> ev.sl_price,
     tp_price           |-> ev.tp_price,
     score_total        |-> ev.score_total,
     notified           |-> ev.notified,
     notify_threshold   |-> ev.notify_threshold,
     outcome_checked_at |-> <<clock>>,
     price_15m          |-> <<>>,
     price_30m          |-> <<>>,
     price_60m          |-> <<>>,
     high_60m           |-> <<>>,
     low_60m            |-> <<>>,
     sl_hit             |-> <<>>,
     tp_hit             |-> <<>>,
     outcome            |-> "OPEN",
     pnl_pct            |-> <<>>]

\* The row dict of record_signal, lines 250-303.
NewRow(ev, signal_id, clock) ==
    [signal_id          |-> signal_id,
     signal_time_unix   |-> clock,
     token_address      |-> ev.token_address,
     pool_address       |-> ev.pool_address,
     entry_price        |-> ev.entry_price,
     sl_price           |-> ev.sl_price,
     tp_price           |-> ev.tp_price,
     score_total        |-> ev.score_total,
     notified           |-> ev.notified,
     notify_threshold   |-> ev.notify_threshold,
     outcome_checked_at |-> None,
     price_15m          |-> None,
     price_30m          |-> None,
     price_60m          |-> None,
     high_60m           |-> None,
     low_60m            |-> None,
     sl_hit             |-> None,
     tp_hit             |-> None,
     outcome            |-> "OPEN",
     pnl_pct            |-> None]

\* Variant of already_open that compares the wrong column.
already_open_by_pool(df, token) ==
    \E i \in DOMAIN df : df[i].pool_address = token /\ df[i].outcome = "OPEN"

\* Lines 236-240 (also is_token_open, lines 198-206).
already_open(df, token) ==
    \E i \in DOMAIN df : df[i].token_address = token /\ df[i].outcome = "OPEN"

\* record_signal: _init_csv, _read_csv, the OPEN check, the append, _write_csv.
record_signal(ev, signal_id) ==
    LET df == ledger IN
    IF df # <<>> /\ already_open(df, ev.token_address)
    THEN /\ ledger' = ledger
         /\ call' = [op |-> "record_signal", token |-> ev.token_address,
                     ret |-> None, fetched |-> {}, nodata |-> {}, raised |-> {}]
    ELSE /\ Len(df) < MaxRecords
         /\ ledger' = Append(df, NewRow(ev, signal_id, now))
         /\ call' = [op |-> "record_signal", token |-> ev.token_address,
                     ret |-> Some(signal_id), fetched |-> {}, nodata |-> {},
                     raised |-> {}]

\* str(uuid.uuid4())[:8] is a random 32-bit value: it either repeats the
\* signal_id of an existing row or is new.  New values are named by the next
\* unused number, so every pattern of repetitions is present.
uuid4_8(df) == { df[i].signal_id : i \in DOMAIN df } \cup { Len(df) + 1 }

RecordSignal ==
    /\ \E ev \in Evaluations, signal_id \in uuid4_8(ledger) :
          record_signal(ev, signal_id)
    /\ UNCHANGED <<now, outcomeVars, fetchVars, botVars, fileVars>>

\* Variant of pending_mask that leaves out the rows past OUTCOME_MAX_AGE.
pending_mask_unexpired(row, now_unix) ==
    /\ row.outcome = "OPEN"
    /\ now_unix - row.signal_time_unix >= OUTCOME_CHECK_DELAY
    /\ now_unix - row.signal_time_unix <= OUTCOME_MAX_AGE

\* Variant of pending_mask without the OPEN test.
pending_mask_any_outcome(row, now_unix) ==
    now_unix - row.signal_time_unix >= OUTCOME_CHECK_DELAY

\* Variant of pending_mask without the age test.
pending_mask_any_age(row, now_unix) ==
    row.outcome = "OPEN"

\* Lines 329-332: the rows check_outcomes selects.
pending_mask(row, now_unix) ==
    /\ row.outcome = "OPEN"
    /\ now_unix - row.signal_time_unix >= OUTCOME_CHECK_DELAY

\* Lines 360-361: df.at[idx, col] = val for every item of outcome_data.
MergeOutcome(row, od) ==
    [row EXCEPT !.outcome_checked_at = od.outcome_checked_at,
                !.price_15m = od.price_15m,
                !.price_30m = od.price_30m,
                !.price_60m = od.price_60m,
                !.high_60m  = od.high_60m,
                !.low_60m   = od.low_60m,
                !.sl_hit    = od.sl_hit,
                !.tp_hit    = od.tp_hit,
                !.outcome   = od.outcome,
                !.pnl_pct   = od.pnl_pct]

\* _fetch_outcome for one row against the upstream behaviour resps.
RowOutcome(row, resps, clock) ==
    fetch_outcome(resps, row.signal_time_unix, row.entry_price,
                  row.sl_price, row.tp_price, clock)

\* Variant of is_expired with >=.
is_expired_ge(age) == age >= OUTCOME_MAX_AGE

\* Line 344.
is_expired(age) == age > OUTCOME_MAX_AGE

\* Variant of unknown_due with a strict comparison.
unknown_due_strict(age) == age > OUTCOME_UNKNOWN_AFTER

\* Line 367.
unknown_due(age) == age >= OUTCOME_UNKNOWN_AFTER

\* One iteration of the loop of check_outcomes, lines 340-376: the row as
\* left in df, the increment of updated, whether _fetch_outcome made its
\* requests, whether it returned None, and whether the try block raised
\* (lines 373-374).
ResolveRow(row, resps, now_unix) ==
    LET age == now_unix - row.signal_time_unix IN
    IF is_expired(age)
    THEN [row |-> [row EXCEPT !.outcome = "EXPIRED",
                              !.outcome_checked_at = Some(now_unix)],
          updated |-> 1, fetched |-> FALSE, nodata |-> FALSE,
          raised |-> FALSE]
    ELSE IF resps[1] = Raises
    THEN [row |-> row, updated |-> 0, fetched |-> FALSE, nodata |-> FALSE,
          raised |-> TRUE]
    ELSE LET outcome_data == RowOutcome(row, resps, now_unix) IN
         IF ~IsNone(outcome_data)
         THEN [row |-> MergeOutcome(row, Val(outcome_data)),
               updated |-> 1, fetched |-> TRUE, nodata |-> FALSE,
               raised |-> FALSE]
         ELSE IF unknown_due(age)
         THEN [row |-> [row EXCEPT !.outcome = "UNKNOWN",
                                   !.outcome_checked_at = Some(now_unix)],
               updated |-> 1, fetched |-> TRUE, nodata |-> TRUE,
               raised |-> FALSE]
         ELSE [row |-> row, updated |-> 0, fetched |-> TRUE, nodata |-> TRUE,
               raised |-> FALSE]

\* What happens during one _fetch_outcome call of a sweep: the upstream
\* rate-limits all four requests, fails with a server error, answers with
\* candles that all precede the signal (stale), or rate-limits once and
\* then answers with the pool's candles; or the call raises.
UpstreamKinds == {"ratelimited", "error", "stale", "data", "raise"}

Always(r) == [i \in 1..(MAX_RETRIES + 1) |-> r]

\* The candles of the hour after the row's signal, newest first.  poolA
\* touched the target at minute 20 and closed below entry at minute 60;
\* poolB touched nothing and closed at entry.
PoolCandles(row) ==
    LET sc == signal_candle(row.signal_time_unix)
        ps == [entry_price |-> row.entry_price, sl_price |-> row.sl_price,
               tp_price |-> row.tp_price]
        C(off, shape) == ShapedCandle(sc + off, shape, ps)
    IN  IF row.pool_address = "poolA"
        THEN <<C(3600, "down"), C(1200, "tp"), C(0, "up")>>
        ELSE <<C(3600, "flat"), C(0, "up")>>

UpstreamOf(kind, row) ==
    CASE kind = "ratelimited" -> Always(Http(429))
      [] kind = "error"       -> Always(Http(500))
      [] kind = "stale"       ->
            Always(Ok(<<ShapedCandle(signal_candle(row.signal_time_unix) - candle_sec,
                                     "tp",
                                     [entry_price |-> row.entry_price,
                                      sl_price |-> row.sl_price,
                                      tp_price |-> row.tp_price])>>))
      [] kind = "data"        ->
            [i \in 1..(MAX_RETRIES + 1) |->
                IF i = 1 THEN Http(429) ELSE Ok(PoolCandles(row))]
      [] kind = "raise"       -> Always(Raises)

RECURSIVE SumUpdated(_, _)
SumUpdated(steps, idx) ==
    IF idx = {} THEN 0
    ELSE LET i == CHOOSE x \in idx : TRUE
         IN  steps[i].updated + SumUpdated(steps, idx \ {i})

\* check_outcomes: read, select, resolve each selected row, write if
\* updated > 0.  up[i] is the upstream behaviour met for selected row i.
check_outcomes(up) ==
    LET df       == ledger
        now_unix == now
        pending  == { i \in DOMAIN df : pending_mask(df[i], now_unix) }
    IN  \E steps \in { [i \in pending |->
                           ResolveRow(df[i], UpstreamOf(up[i], df[i]), now_unix)] } :
          LET new_df  == [i \in DOMAIN df |->
                            IF i \in pending THEN steps[i].row ELSE df[i]]
              updated == SumUpdated(steps, pending)
          IN  /\ ledger' = IF updated > 0 THEN new_df ELSE ledger
              /\ call' = [op |-> "check_outcomes", token |-> "",
                          ret |-> Some(updated),
                          fetched |-> { i \in pending : steps[i].fetched },
                          nodata  |-> { i \in pending : steps[i].nodata },
                          raised  |-> { i \in pending : steps[i].raised }]

CheckOutcomes ==
    /\ \E up \in [{ i \in DOMAIN ledger : pending_mask(ledger[i], now) }
                     -> UpstreamKinds] : check_outcomes(up)
    /\ UNCHANGED <<now, outcomeVars, fetchVars, botVars, fileVars>>

\* The clock is sampled every OUTCOME_CHECK_DELAY seconds, except that it
\* passes from OUTCOME_UNKNOWN_AFTER straight to OUTCOME_MAX_AGE: every age
\* threshold is then met exactly, just missed and just passed by some row.
NextInstant(t) ==
    IF t = OUTCOME_UNKNOWN_AFTER THEN OUTCOME_MAX_AGE ELSE t + OUTCOME_CHECK_DELAY

Tick ==
    /\ NextInstant(now) <= MaxHours * OUTCOME_CHECK_DELAY
    /\ now' = NextInstant(now)
    /\ call' = IdleCall
    /\ UNCHANGED <<ledger, outcomeVars, fetchVars, botVars, fileVars>>

Init ==
    /\ ledger = <<>>
    /\ now = 0
    /\ call = IdleCall
    /\ fo_in = IdleFoIn /\ fo_out = IdleFoOut /\ rq = IdleRq
    /\ bot = IdleBot /\ calc = IdleCalc /\ disk = IdleDisk /\ bt = IdleBt

Next == RecordSignal \/ CheckOutcomes \/ Tick

Spec == Init /\ [][Next]_vars

-----------------------------------------------------------------------------
(* Properties of the ledger (Spec)                                         *)

Terminal == {"WIN", "LOSS", "WIN+", "LOSS-", "BOTH", "UNKNOWN", "EXPIRED"}

Age(row) == now - row.signal_time_unix

\* C1: the ledger never holds two OPEN rows with the same token_address.
C1_OneOpenPerToken ==
    \A i, j \in DOMAIN ledger :
        (/\ i # j
         /\ ledger[i].token_address = ledger[j].token_address
         /\ ledger[i].outcome = "OPEN")
            => ledger[j].outcome # "OPEN"

\* C1 witness: a token was recorded, resolved and recorded again: two rows
\* of one token, the older terminal, the newer OPEN.
C1_Witness ==
    \E i, j \in DOMAIN ledger :
        /\ i < j
        /\ ledger[i].token_address = ledger[j].token_address
        /\ ledger[i].outcome \in Terminal
        /\ ledger[j].outcome = "OPEN"

\* C2: a record_signal call for a token that has an OPEN row returns the
\* empty string and leaves the ledger as it was.
C2_OpenTokenSkipped ==
    [][ (/\ call'.op = "record_signal"
         /\ \E i \in DOMAIN ledger :
               /\ ledger[i].token_address = call'.token
               /\ ledger[i].outcome = "OPEN")
            => (call'.ret = <<>> /\ ledger' = ledger) ]_vars

\* C2 witness: record_signal has just returned the empty string for a token
\* whose row is OPEN, and another token's row is in the ledger as well.
C2_Witness ==
    /\ call.op = "record_signal"
    /\ call.ret = <<>>
    /\ \E i, j \in DOMAIN ledger :
          /\ ledger[i].token_address = call.token
          /\ ledger[i].outcome = "OPEN"
          /\ ledger[j].token_address # call.token

\* C3: a row whose outcome is terminal is never changed again, and an
\* outcome only ever changes from OPEN to a terminal value.
C3_TerminalIsFinal ==
    [][ \A i \in DOMAIN ledger :
          /\ i \in DOMAIN ledger'
          /\ ledger[i].outcome \in Terminal => ledger'[i] = ledger[i]
          /\ ledger'[i].outcome # ledger[i].outcome
                => (ledger[i].outcome = "OPEN" /\ ledger'[i].outcome \in Terminal) ]_vars

\* C3 witness: a sweep has just resolved one row while an older terminal
\* row, itself old enough to be selected by age, was in the ledger.
C3_Witness ==
    /\ call.op = "check_outcomes"
    /\ \E i, j \in DOMAIN ledger :
          /\ ledger[i].outcome \in Terminal
          /\ ledger[i].outcome_checked_at # Some(now)
          /\ Age(ledger[i]) >= 3600
          /\ ledger[j].outcome \in Terminal
          /\ ledger[j].outcome_checked_at = Some(now)

\* C4: check_outcomes changes only rows that are OPEN and at least 3600 s
\* old, keeps the number of rows, and on a changed row changes only the
\* post-resolution fields.
C4_SweepFrame ==
    [][ call'.op = "check_outcomes"
          => /\ Len(ledger') = Len(ledger)
             /\ \A i \in DOMAIN ledger :
                   /\ (ledger[i].outcome # "OPEN" \/ Age(ledger[i]) < 3600)
                         => ledger'[i] = ledger[i]
                   /\ \A f \in DOMAIN ledger[i] \ PostFields :
                         ledger'[i][f] = ledger[i][f]
                   /\ DOMAIN ledger'[i] = DOMAIN ledger[i] ]_vars

\* C4 witness: a sweep has just filled the post-resolution fields of one
\* row from candle data while a younger OPEN row stayed as it was.
C4_Witness ==
    /\ call.op = "check_outcomes"
    /\ \E i, j \in DOMAIN ledger :
          /\ ledger[i].outcome = "WIN"
          /\ ledger[i].outcome_checked_at = Some(now)
          /\ ledger[i].price_60m # <<>>
          /\ ledger[j].outcome = "OPEN"
          /\ Age(ledger[j]) < 3600

C6_NoDataOpenOrUnknown ==
    [][ call'.op = "check_outcomes"
          => \A i \in call'.nodata :
               /\ ledger[i].outcome = "OPEN"
               /\ Age(ledger[i]) < 7200 => ledger'[i] = ledger[i]
               /\ Age(ledger[i]) >= 7200 => ledger'[i].outcome = "UNKNOWN" ]_vars

\* C6 witness: in one sweep the fetches for two rows returned no data; the
\* row exactly 2 hours old became UNKNOWN and the row 1 hour old is OPEN.
C6_Witness ==
    /\ call.op = "check_outcomes"
    /\ \E i, j \in call.nodata :
          /\ Age(ledger[i]) = 7200
          /\ ledger[i].outcome = "UNKNOWN"
          /\ Age(ledger[j]) = 3600
          /\ ledger[j].outcome = "OPEN"

-----------------------------------------------------------------------------
(* Specification SpecFetch: one upstream candle fetch, request by request  *)

Fetchers == {"tracker", "gt_fetcher"}

\* What the upstream can answer to one request made for the row args.
Responses(args) ==
    { Exc } \cup { Http(status) : status \in HttpStatuses } \cup
    { Ok(PoolCandles(args)),
      Ok(<<ShapedCandle(signal_candle(args.signal_time_unix) - candle_sec, "up",
                        [entry_price |-> args.entry_price,
                         sl_price |-> args.sl_price,
                         tp_price |-> args.tp_price])>>) }

InitFetch ==
    /\ ledger = IdleLedger /\ now = 0 /\ call = IdleCall
    /\ fo_in = IdleFoIn /\ fo_out = IdleFoOut /\ bot = IdleBot
    /\ calc = IdleCalc /\ disk = IdleDisk /\ bt = IdleBt
    /\ \E f \in Fetchers, ev \in Evaluations, su \in SignalTimes :
          rq = [fetcher |-> f, args |-> NewRow(ev, 1, su), st |-> RetryInit,
                hist |-> <<>>, last |-> None, returned |-> FALSE,
                value |-> None]

\* requests.get and raise_for_status of the current attempt; hist lists the
\* status of every response received (0 for a raised exception), last is
\* the latest response.
FetchRequest ==
    /\ rq.fetcher \in Fetchers
    /\ rq.st.pc = "request"
    /\ \E r \in Responses(rq.args) :
          rq' = [rq EXCEPT
                   !.st = IF rq.fetcher = "tracker"
                          THEN TrackerRequest(rq.st, r)
                          ELSE GtRequest(rq.st, r),
                   !.hist = Append(rq.hist, r.status),
                   !.last = Some(r)]
    /\ UNCHANGED <<ledgerVars, outcomeVars, botVars, fileVars>>

\* time.sleep(wait) before the next attempt.
FetchSleep ==
    /\ rq.fetcher \in Fetchers
    /\ rq.st.pc = "sleep"
    /\ rq' = [rq EXCEPT !.st = RetrySleep(rq.st)]
    /\ UNCHANGED <<ledgerVars, outcomeVars, botVars, fileVars>>

\* The function returns.
FetchReturn ==
    /\ rq.fetcher \in Fetchers
    /\ rq.st.pc = "done"
    /\ ~rq.returned
    /\ rq' = [rq EXCEPT
                !.returned = TRUE,
                !.value = IF rq.fetcher = "tracker"
                          THEN OutcomeAfterLoop(rq.st, rq.args.signal_time_unix,
                                   rq.args.entry_price, rq.args.sl_price,
                                   rq.args.tp_price,
                                   rq.args.signal_time_unix + WINDOW_SEC)
                          ELSE OhlcvAfterLoop(rq.st)]
    /\ UNCHANGED <<ledgerVars, outcomeVars, botVars, fileVars>>

NextFetch == FetchRequest \/ FetchSleep \/ FetchReturn

SpecFetch == InitFetch /\ [][NextFetch]_vars

\* requests.get has timeout=10 and time.sleep(wait) ends: every step of a
\* running fetch is eventually taken.
SpecFetchFair == SpecFetch /\ WF_vars(NextFetch)

-----------------------------------------------------------------------------
(* Properties of the upstream fetch (SpecFetch, SpecFetchFair)             *)

OnlyRateLimited == \A k \in DOMAIN rq.hist : rq.hist[k] = 429

\* C10: a fetch that keeps receiving 429 makes at most 4 requests, sleeps
\* 10, 20 and 30 seconds before the 1st, 2nd and 3rd retry, then returns no
\* data; no fetch ever makes a 5th request, and every fetch returns.
C10_RateLimitedFetchEnds ==
    /\ [](rq.st.requests <= 4)
    /\ [](OnlyRateLimited =>
            /\ rq.st.requests = Len(rq.hist)
            /\ \A k \in DOMAIN rq.st.sleeps : rq.st.sleeps[k] = 10 * k
            /\ Len(rq.hist) \in 1..3 =>
                 \/ rq.st.pc = "sleep" /\ Len(rq.st.sleeps) = Len(rq.hist) - 1
                                       /\ rq.st.wait = 10 * Len(rq.hist)
                 \/ rq.st.pc = "request" /\ Len(rq.st.sleeps) = Len(rq.hist)
            /\ Len(rq.hist) = 4 =>
                 /\ rq.st.pc = "done"
                 /\ rq.st.sleeps = <<10, 20, 30>>
                 /\ rq.value = <<>>)
    /\ <>(rq.returned)

\* C10 witness: a fetch met four 429 responses, slept 10, 20 and 30 seconds
\* between them and has returned no data after its 4th request.
C10_Witness ==
    /\ rq.hist = <<429, 429, 429, 429>>
    /\ rq.st.requests = 4
    /\ rq.st.sleeps = <<10, 20, 30>>
    /\ rq.returned
    /\ rq.value = <<>>

\* The latest response is a failure other than a rate limit: a timeout or
\* connection error, a non-429 HTTP error, or a body that does not parse.
FailedOtherThan429 ==
    /\ ~IsNone(rq.last)
    /\ \/ Val(rq.last).kind = "exception"
       \/ Val(rq.last).status >= 400 /\ Val(rq.last).status # 429
       \/ Val(rq.last).status < 400 /\ ~Val(rq.last).valid

\* C11: the request that meets a failure other than 429 is the last one of
\* the fetch: the loop ends at once with no sleep pending or added, the
\* fetch makes no further request and returns no data.
C11_OtherFailureNotRetried ==
    /\ [][(rq'.st.requests = rq.st.requests + 1 /\ FailedOtherThan429')
            => /\ rq'.st.pc = "done"
               /\ rq'.st.wait = 0
               /\ rq'.st.sleeps = rq.st.sleeps]_vars
    /\ [](FailedOtherThan429 =>
            /\ rq.st.pc = "done"
            /\ rq.st.requests = Len(rq.hist)
            /\ Len(rq.st.sleeps) = Len(rq.hist) - 1
            /\ \A k \in 1..(Len(rq.hist) - 1) : rq.hist[k] = 429
            /\ rq.returned => rq.value = <<>>)

\* C11 witness: a fetch was rate-limited once, then met a server error, and
\* has returned no data after two requests and one sleep.
C11_Witness ==
    /\ rq.hist = <<429, 500>>
    /\ rq.returned
    /\ rq.value = <<>>
    /\ rq.st.requests = 2
    /\ rq.st.sleeps = <<10>>

-----------------------------------------------------------------------------
(* Specification SpecBot: the jobs of the bot process on one event loop    *)
(*                                                                         *)
(* run_scan (started by the job queue and by /scan) and check_outcomes_job *)
(* are coroutines of one asyncio event loop: a job runs until it reaches   *)
(* an await, and only then can another job run.  The wall clock now does   *)
(* not move here (a run lasts seconds, the ledger's ages are hours); the   *)
(* request clock bot.since counts the time since the latest upstream       *)
(* request, saturating at GT_REQUEST_INTERVAL.  Code between two awaits    *)
(* takes no time except where it calls time.sleep.                         *)

\* config.GT_REQUEST_INTERVAL, in steps of the request clock.
GT_REQUEST_INTERVAL == 2

ScanTasks == {"sched", "manual"}
Tasks     == ScanTasks \cup {"sweep"}

\* A job that is not running.  base is the ledger as read by the
\* read-modify-write in progress (None when there is none), df the frame
\* being modified, owed the token whose score was computed and which
\* record_signal has not yet been called for, score and notified the
\* result["score"] and the notified of bot.py:152, failed the rows of the
\* sweep whose resolution raised (the warnings of tracker.py:374).
IdleTask ==
    [pc |-> "idle", pairs |-> <<>>, pair |-> None, base |-> None, df |-> <<>>,
     todo |-> <<>>, updated |-> 0, timer |-> 0, owed |-> None,
     score |-> None, notified |-> FALSE, failed |-> <<>>]

\* Variant of AwaitPoints with an await between the read and the write of
\* record_signal.
AwaitPointsInWrite == {"idle", "sleep", "send", "write"}

\* The positions at which a job has given the event loop back: not started,
\* await asyncio.sleep (bot.py:134), await send_message (bot.py:156).
AwaitPoints == {"idle", "sleep", "send"}

\* The event loop runs job t: t holds the loop, or the loop is free and t
\* waits at an await whose timer has run out.
CanRun(t) ==
    \/ bot.loop = t
    \/ /\ bot.loop = "free"
       /\ bot.task[t].pc \in AwaitPoints
       /\ bot.task[t].timer = 0

\* Job t runs up to the position of new.  since2 is the request clock
\* afterwards, gap2 the shortest time that preceded a request made in this
\* step (None if it made none), slept the time spent in time.sleep, which
\* the timers of the suspended jobs see pass.
BotAfter(t, new, since2, gap2, cache2, slept) ==
    [bot EXCEPT
       !.loop  = IF new.pc \in AwaitPoints THEN "free" ELSE t,
       !.task  = [u \in Tasks |->
                    IF u = t THEN new
                    ELSE [bot.task[u] EXCEPT
                            !.timer = Max2(0, bot.task[u].timer - slept)]],
       !.since = since2,
       !.gap   = gap2,
       !.cache = cache2]

BotStep(t, new, since2, gap2, cache2, slept) ==
    bot' = BotAfter(t, new, since2, gap2, cache2, slept)

\* A step of job t that makes no request and does not sleep.
BotQuiet(t, new) == BotStep(t, new, bot.since, None, bot.cache, 0)

\* Bound on the pairs one scan processes.
MaxPairs == 2

\* The lists get_filtered_pairs can return: distinct pairs, at most MaxPairs.
RECURSIVE PairListsOver(_, _)
PairListsOver(S, n) ==
    IF n = 0 THEN {<<>>}
    ELSE {<<>>} \cup
         UNION { { <<p>> \o l : l \in PairListsOver(S \ {p}, n - 1) } : p \in S }

PairLists == PairListsOver(Evaluations, MaxPairs)

\* What the trending_pools endpoint answers to page 1 and page 2: "ok" is a
\* page with pools, "fail" a failed request or a page without pools.
ListingAnswers == {<<"fail">>, <<"ok", "fail">>, <<"ok", "ok">>}

\* What fetch_ohlcv and calculate_score make of a pair: no usable candles,
\* an exception in calculate_score, a score below or at config's
\* NOTIFY_THRESHOLD.
ScoreResults == {"nodata", "error", "below", "above"}

\* config.NOTIFY_THRESHOLD, the notify_threshold of bot.py:40.
NOTIFY_THRESHOLD == 70

\* config.SCAN_INTERVAL, the scan_interval of bot.py:41, in seconds.
SCAN_INTERVAL == 300

\* A Python float: finite (v in tenths), NaN or an infinity.
Fin(v)  == [kind |-> "fin", v |-> v]
FNaN    == [kind |-> "nan"]
FInf(n) == [kind |-> "inf", neg |-> n]

\* config.MC_MIN and config.MC_MAX as the bot starts (500K and 50M).
MC_MIN == Fin(5000000)
MC_MAX == Fin(500000000)

\* The jobs main() schedules (bot.py:517-521).
BootJobs == <<[name |-> "daily_log_commit", interval |-> 86400]>>

\* result["score"] of a scored pair.
ScoreOf(res) == IF res = "above" THEN NOTIFY_THRESHOLD ELSE NOTIFY_THRESHOLD - 5

\* The pairs the other running scan may still record.
Backlog(t) ==
    LET u == CHOOSE x \in ScanTasks : x # t
    IN  Len(bot.task[u].pairs) + Len(bot.task[u].pair)

\* The ledgers a bot run starts from: empty, or one or two rows recorded
\* OUTCOME_CHECK_DELAY before.
OldLedgers ==
    {<<>>} \cup { <<NewRow(ev, 1, 0)>> : ev \in Evaluations }
           \cup { <<NewRow(p[1], 1, 0), NewRow(p[2], 2, 0)>> :
                     p \in { q \in Evaluations \X Evaluations : q[1] # q[2] } }

InitBot ==
    /\ ledger \in OldLedgers
    /\ now = OUTCOME_CHECK_DELAY
    /\ call = IdleCall
    /\ fo_in = IdleFoIn /\ fo_out = IdleFoOut /\ rq = IdleRq
    /\ calc = IdleCalc /\ disk = IdleDisk /\ bt = IdleBt
    /\ bot = [loop |-> "free", task |-> [t \in Tasks |-> IdleTask],
              since |-> GT_REQUEST_INTERVAL, gap |-> None, cache |-> {},
              notify_threshold |-> NOTIFY_THRESHOLD,
              sent |-> [k \in TokenAddresses |-> 0],
              scan_interval |-> SCAN_INTERVAL, scan_running |-> FALSE,
              jobs |-> BootJobs, mc_min |-> MC_MIN, mc_max |-> MC_MAX,
              cmd |-> None, reply |-> None]

\* The job queue or cmd_scan calls run_scan.
ScanStart ==
    /\ \E t \in ScanTasks :
          /\ bot.task[t].pc = "idle"
          /\ CanRun(t)
          /\ BotQuiet(t, [IdleTask EXCEPT !.pc = "listing"])
    /\ UNCHANGED <<ledgerVars, outcomeVars, fetchVars, fileVars>>

\* dex_scanner.get_filtered_pairs: a request per page, time.sleep after
\* each page that had pools.
ScanListing ==
    /\ \E t \in ScanTasks, pages \in ListingAnswers, pairs \in PairLists :
          /\ bot.task[t].pc = "listing"
          /\ CanRun(t)
          /\ pages[1] = "fail" => pairs = <<>>
          /\ Len(ledger) + Backlog(t) + Len(pairs) <= MaxRecords
          /\ LET oks == Cardinality({ k \in DOMAIN pages : pages[k] = "ok" })
             IN  BotStep(t, [bot.task[t] EXCEPT !.pc = "next", !.pairs = pairs],
                         IF pages[Len(pages)] = "ok"
                         THEN GT_REQUEST_INTERVAL ELSE 0,
                         Some(bot.since), bot.cache,
                         oks * GT_REQUEST_INTERVAL)
    /\ UNCHANGED <<ledgerVars, outcomeVars, fetchVars, fileVars>>

\* The head of the for loop of run_scan, lines 114-134: the loop ends, or
\* the pair is skipped (notified recently, or OPEN in the ledger), or the
\* job awaits asyncio.sleep.
ScanNext ==
    /\ \E t \in ScanTasks :
          /\ bot.task[t].pc = "next"
          /\ CanRun(t)
          /\ LET st == bot.task[t] IN
             IF st.pairs = <<>>
             THEN BotQuiet(t, [st EXCEPT !.pc = "idle"])
             ELSE LET p == Head(st.pairs) IN
                  IF \/ p.token_address \in bot.cache
                     \/ already_open(ledger, p.token_address)
                  THEN BotQuiet(t, [st EXCEPT !.pairs = Tail(st.pairs)])
                  ELSE BotQuiet(t, [st EXCEPT !.pc = "sleep",
                                              !.pairs = Tail(st.pairs),
                                              !.pair = Some(p),
                                              !.timer = GT_REQUEST_INTERVAL])
    /\ UNCHANGED <<ledgerVars, outcomeVars, fetchVars, fileVars>>

\* Variant of ScanSkip in which the failure leaves run_scan.
ScanSkipAbort(st) == [st EXCEPT !.pc = "idle", !.pairs = <<>>, !.pair = None]

\* The continue of bot.py:141 (no usable candles) and of bot.py:148 (the
\* except around calculate_score): back to the head of the loop.
ScanSkip(st) == [st EXCEPT !.pc = "next", !.pair = None]

\* After the sleep: fetch_ohlcv, calculate_score, the threshold test
\* against the global notify_threshold (line 152), up to the await of
\* send_message or the call of record_signal (lines 135-165).
ScanFetch ==
    /\ \E t \in ScanTasks, res \in ScoreResults :
          /\ bot.task[t].pc = "sleep"
          /\ CanRun(t)
          /\ LET st    == bot.task[t]
                 token == Val(st.pair).token_address
                 notified == ScoreOf(res) >= bot.notify_threshold
                 new   == IF res \in {"nodata", "error"} THEN ScanSkip(st)
                          ELSE [st EXCEPT !.pc = IF notified THEN "send"
                                                 ELSE "record",
                                          !.score = Some(ScoreOf(res)),
                                          !.notified = notified,
                                          !.owed = Some(token)]
             IN  BotStep(t, new, 0, Some(bot.since), bot.cache, 0)
    /\ UNCHANGED <<ledgerVars, outcomeVars, fetchVars, fileVars>>

\* send_message returns (the notification is delivered and counted in
\* bot.sent; cache.mark, then record_signal) or raises: the exception
\* leaves run_scan.
ScanSent ==
    /\ \E t \in ScanTasks, delivered \in BOOLEAN :
          /\ bot.task[t].pc = "send"
          /\ CanRun(t)
          /\ LET st == bot.task[t] IN
             IF delivered
             THEN bot' = [BotAfter(t, [st EXCEPT !.pc = "record"], bot.since,
                                   None,
                                   bot.cache \cup {Val(st.pair).token_address},
                                   0)
                            EXCEPT !.sent[Val(st.pair).token_address] = @ + 1]
             ELSE BotQuiet(t, [st EXCEPT !.pc = "idle", !.pairs = <<>>,
                                         !.pair = None])
    /\ UNCHANGED <<ledgerVars, outcomeVars, fetchVars, fileVars>>

\* record_signal is called: _init_csv, _read_csv (tracker.py:231-234).
RecordRead ==
    /\ \E t \in ScanTasks :
          /\ bot.task[t].pc = "record"
          /\ CanRun(t)
          /\ BotQuiet(t, [bot.task[t] EXCEPT !.pc = "write",
                                             !.base = Some(ledger),
                                             !.owed = None])
    /\ UNCHANGED <<ledgerVars, outcomeVars, fetchVars, fileVars>>

\* The rest of record_signal: the OPEN check on the frame read, the append
\* and _write_csv (tracker.py:235-311).  The arguments are those of
\* bot.py:165: notified as computed at line 152, notify_threshold the global
\* as it is now.
RecordWrite ==
    /\ \E t \in ScanTasks :
          /\ bot.task[t].pc = "write"
          /\ CanRun(t)
          /\ LET st == bot.task[t]
                 df == Val(st.base)
                 p  == [Val(st.pair) EXCEPT
                          !.score_total = Val(st.score),
                          !.notified = st.notified,
                          !.notify_threshold = bot.notify_threshold]
             IN  /\ IF df # <<>> /\ already_open(df, p.token_address)
                    THEN ledger' = ledger
                    ELSE \E signal_id \in uuid4_8(df) :
                            ledger' = Append(df, NewRow(p, signal_id, now))
                 /\ BotQuiet(t, [st EXCEPT !.pc = "next", !.base = None,
                                           !.pair = None])
    /\ UNCHANGED <<now, call, outcomeVars, fetchVars, fileVars>>

\* check_outcomes_job calls check_outcomes: the read and the selection
\* (tracker.py:323-336).  With nothing pending it returns 0.
SweepRead ==
    /\ bot.task["sweep"].pc = "idle"
    /\ CanRun("sweep")
    /\ LET df   == ledger
           sel  == [i \in DOMAIN df |-> i]
           todo == SelectSeq(sel, LAMBDA i : pending_mask(df[i], now))
       IN  IF todo = <<>>
           THEN BotQuiet("sweep", IdleTask)
           ELSE BotQuiet("sweep", [IdleTask EXCEPT !.pc = "rows",
                                                   !.base = Some(df),
                                                   !.df = df, !.todo = todo])
    /\ UNCHANGED <<ledgerVars, outcomeVars, fetchVars, fileVars>>

\* One pass of the loop of check_outcomes (tracker.py:340-376): EXPIRED
\* without a request, or _fetch_outcome and time.sleep, or an exception,
\* the warning and time.sleep.
SweepRow ==
    /\ bot.task["sweep"].pc = "rows"
    /\ CanRun("sweep")
    /\ bot.task["sweep"].todo # <<>>
    /\ \E kind \in UpstreamKinds :
          LET st == bot.task["sweep"]
              i  == Head(st.todo)
              r  == ResolveRow(st.df[i], UpstreamOf(kind, st.df[i]), now)
              new == [st EXCEPT !.df = [st.df EXCEPT ![i] = r.row],
                                !.todo = Tail(st.todo),
                                !.updated = st.updated + r.updated,
                                !.failed = IF r.raised THEN Append(st.failed, i)
                                           ELSE st.failed]
          IN  IF r.fetched
              THEN BotStep("sweep", new, GT_REQUEST_INTERVAL, Some(bot.since),
                           bot.cache, GT_REQUEST_INTERVAL)
              ELSE IF r.raised
              THEN BotStep("sweep", new, GT_REQUEST_INTERVAL, None,
                           bot.cache, GT_REQUEST_INTERVAL)
              ELSE BotQuiet("sweep", new)
    /\ UNCHANGED <<ledgerVars, outcomeVars, fetchVars, fileVars>>

\* The end of check_outcomes: _write_csv if updated > 0 (tracker.py:378-382).
SweepWrite ==
    /\ bot.task["sweep"].pc = "rows"
    /\ CanRun("sweep")
    /\ bot.task["sweep"].todo = <<>>
    /\ ledger' = IF bot.task["sweep"].updated > 0
                 THEN bot.task["sweep"].df ELSE ledger
    /\ BotQuiet("sweep", IdleTask)
    /\ UNCHANGED <<now, call, outcomeVars, fetchVars, fileVars>>

\* Time passes while no job runs.
Elapse ==
    /\ bot.loop = "free"
    /\ \/ bot.since < GT_REQUEST_INTERVAL
       \/ \E t \in Tasks : bot.task[t].timer > 0
    /\ bot' = [bot EXCEPT
                 !.since = Min2(GT_REQUEST_INTERVAL, bot.since + 1),
                 !.gap = None,
                 !.task = [t \in Tasks |->
                             [bot.task[t] EXCEPT
                               !.timer = Max2(0, bot.task[t].timer - 1)]]]
    /\ UNCHANGED <<ledgerVars, outcomeVars, fetchVars, fileVars>>

NextBot ==
    \/ ScanStart \/ ScanListing \/ ScanNext \/ ScanFetch \/ ScanSent
    \/ RecordRead \/ RecordWrite
    \/ SweepRead \/ SweepRow \/ SweepWrite
    \/ Elapse

SpecBot == InitBot /\ [][NextBot]_vars

-----------------------------------------------------------------------------
(* Properties of the bot process (SpecBot)                                 *)

\* Job t has read the ledger for a read-modify-write it has not finished.
InFlight(t) == ~IsNone(bot.task[t].base)

\* C12: at most one job is between the read and the write of a ledger
\* read-modify-write, and every change of the ledger is the write of the
\* job in flight, made on a frame equal to the ledger it replaces.
C12_OneReadModifyWrite ==
    /\ [](\A t, u \in Tasks : InFlight(t) /\ InFlight(u) => t = u)
    /\ [][ledger' # ledger =>
            \E t \in Tasks : /\ InFlight(t)
                             /\ ~InFlight(t)'
                             /\ Val(bot.task[t].base) = ledger]_vars

\* C12 witness: the sweep has read the ledger, has resolved a row and is
\* about to write, while a scan is suspended in send_message with a pair
\* it will record.
C12_Witness ==
    /\ InFlight("sweep")
    /\ bot.task["sweep"].todo = <<>>
    /\ bot.task["sweep"].updated > 0
    /\ \E t \in ScanTasks : bot.task[t].pc = "send"

\* C15: when a run of run_scan has ended, record_signal has been called
\* for every pair the run computed a score for.
C15_ScoredIsRecorded ==
    \A t \in ScanTasks : bot.task[t].pc = "idle" => IsNone(bot.task[t].owed)

\* C19: every upstream request of the bot process comes at least
\* GT_REQUEST_INTERVAL after the request before it.
C19_RequestsSpaced ==
    IsNone(bot.gap) \/ Val(bot.gap) >= GT_REQUEST_INTERVAL

\* C27: a failure in one unit of work does not stop the loop.  In run_scan
\* a pair without usable candles or whose scoring raised is skipped: the
\* scan is back at the head of its loop with the pairs behind it untouched
\* and the ledger as it was, and from the head of the loop with a pair left
\* the scan does not end.  In check_outcomes a row whose resolution raised
\* stays OPEN and counts as no update, the loop goes on with the rows behind
\* it, and the sweep ends only with no row left and then writes the frame
\* if it made an update.
C27_FailureDoesNotStopLoop ==
    [][ /\ \A t \in ScanTasks :
             /\ (/\ bot.task[t].pc = "sleep"
                 /\ bot'.task[t].pc \notin {"sleep", "record", "send"})
                   => /\ bot'.task[t].pc = "next"
                      /\ bot'.task[t].pairs = bot.task[t].pairs
                      /\ ledger' = ledger
             /\ (bot.task[t].pc = "next" /\ bot.task[t].pairs # <<>>)
                   => bot'.task[t].pc # "idle"
        /\ LET sw  == bot.task["sweep"]
               sw2 == bot'.task["sweep"]
           IN  /\ Len(sw2.failed) > Len(sw.failed)
                     => /\ sw2.df[Head(sw.todo)] = sw.df[Head(sw.todo)]
                        /\ sw.df[Head(sw.todo)].outcome = "OPEN"
                        /\ sw2.todo = Tail(sw.todo)
                        /\ sw2.updated = sw.updated
                        /\ sw2.pc = "rows"
               /\ (sw.pc = "rows" /\ sw2.pc = "idle")
                     => /\ sw.todo = <<>>
                        /\ sw.updated > 0 => ledger' = sw.df
                        /\ \A k \in DOMAIN sw.failed :
                              ledger'[sw.failed[k]].outcome = "OPEN" ]_vars

\* C27 witness: the sweep is about to write; the resolution of its first
\* row raised and that row is OPEN in the frame, the row behind it was
\* resolved from candles.
C27_Witness ==
    LET sw == bot.task["sweep"] IN
    /\ sw.pc = "rows"
    /\ sw.todo = <<>>
    /\ sw.failed = <<1>>
    /\ sw.updated = 1
    /\ Len(sw.df) = 2
    /\ sw.df[1].outcome = "OPEN"
    /\ sw.df[2].outcome \in {"WIN", "LOSS", "BOTH", "WIN+", "LOSS-"}

-----------------------------------------------------------------------------
(* Specification SpecScore: the total of scorer.calculate_score            *)
(*                                                                         *)
(* Sub-scores are floats in the code; here they are counted in half        *)
(* points, so 25.0 is 50 and 12.5 is 25.  The score returned is in whole   *)
(* points.                                                                 *)

\* Python's round(x) of x = h / 2: the nearest integer, a tie going to the
\* even one.
RoundHalves(h) ==
    LET q == h \div 2 IN
    IF h % 2 = 0 THEN q
    ELSE IF q % 2 = 0 THEN q ELSE q + 1

\* Variant of ClampScore that does not clamp.
ClampScoreNone(r) == r

\* max(0, min(100, r)), scorer.py:96.
ClampScore(r) == Max2(0, Min2(100, r))

\* The values of the sub-scores, in half points: both ends of each range
\* and a value in between.
VolScores   == {0, 25, 50}
VwapScores  == {0, 40}
LiqScores   == {0, 15, 30}
ReproScores == {0, 19, 40}
PpsBonuses  == {0 - 20, 0 - 10, 0, 10, 20}

\* rsi_score with its penalty: the penalty is not 0 only above
\* rsi_overbought, where rsi_score is 20.
RsiScores ==
    { [rsi_score |-> 0, penalty |-> 0], [rsi_score |-> 40, penalty |-> 0],
      [rsi_score |-> 40, penalty |-> 0 - 15],
      [rsi_score |-> 40, penalty |-> 0 - 30] }

InitScore ==
    /\ ledger = IdleLedger /\ now = 0 /\ call = IdleCall /\ rq = IdleRq
    /\ bot = IdleBot /\ fo_in = IdleFoIn /\ fo_out = IdleFoOut
    /\ disk = IdleDisk /\ bt = IdleBt
    /\ \E v \in VolScores, w \in VwapScores, r \in RsiScores, l \in LiqScores,
          p \in ReproScores, b \in PpsBonuses :
          calc = [pc |-> "args", vol_score |-> v, vwap_score |-> w,
                  rsi_score |-> r.rsi_score, penalty |-> r.penalty,
                  liq_score |-> l, repro_score |-> p, pps_bonus |-> b]

\* scorer.py:95-96: total and score.
CalculateScore ==
    /\ calc.pc = "args"
    /\ LET total == calc.vol_score + calc.vwap_score + calc.rsi_score
                    + calc.liq_score + calc.repro_score + calc.penalty
                    + calc.pps_bonus
       IN  calc' = [calc EXCEPT !.pc = "returned"] @@
                   [total |-> total, score |-> ClampScore(RoundHalves(total))]
    /\ UNCHANGED <<fo_in, fo_out, bt, ledgerVars, fetchVars, botVars, fileVars>>

NextScore == CalculateScore

SpecScore == InitScore /\ [][NextScore]_vars

\* C20: the score calculate_score returns is a whole number of points
\* between 0 and 100.
C20_ScoreInRange ==
    calc.pc = "returned" => calc.score \in 0..100

\* C20 witness: calculate_score has returned 100 for sub-scores whose sum,
\* 110 points, is above the range.
C20_Witness ==
    /\ calc.pc = "returned"
    /\ calc.total = 220
    /\ calc.score = 100

-----------------------------------------------------------------------------
(* A further property of the ledger (Spec)                                 *)

\* C18: no two rows of the ledger have the same signal_id.
C18_UniqueSignalIds ==
    \A i, j \in DOMAIN ledger :
       ledger[i].signal_id = ledger[j].signal_id => i = j

\* C28: a record_signal call for a token that has no OPEN row appends one
\* row at the end of the ledger, for that token, with outcome OPEN and the
\* other post-resolution columns empty, and leaves the rows that were there
\* as they were and in their order.
C28_RecordAppendsOne ==
    [][ (/\ call'.op = "record_signal"
         /\ ~\E i \in DOMAIN ledger :
                /\ ledger[i].token_address = call'.token
                /\ ledger[i].outcome = "OPEN")
            => (/\ Len(ledger') = Len(ledger) + 1
                /\ SubSeq(ledger', 1, Len(ledger)) = ledger
                /\ ledger'[Len(ledger')].token_address = call'.token
                /\ ledger'[Len(ledger')].outcome = "OPEN"
                /\ \A f \in PostFields \ {"outcome"} :
                      ledger'[Len(ledger')][f] = <<>>) ]_vars

\* C28 witness: record_signal has just appended an OPEN row behind a row of
\* the same token that is resolved.
C28_Witness ==
    /\ call.op = "record_signal"
    /\ call.ret # <<>>
    /\ Len(ledger) = 2
    /\ ledger[1].token_address = call.token
    /\ ledger[1].outcome \in Terminal
    /\ ledger[2].token_address = call.token
    /\ ledger[2].outcome = "OPEN"

-----------------------------------------------------------------------------
(* The ledger file under failures and rotation                             *)
(*                                                                         *)
(* A tracker call is taken in two steps, up to its _read_csv and from      *)
(* there to its return, so that a failure of the read or of the write and  *)
(* the rename of rotate_log (run by the config editor, another process)    *)
(* have a place to happen.  The bot makes one tracker call at a time.      *)
(* ledger is the content of logs/signal_log.csv, <<>> while the file does  *)
(* not exist.                                                              *)

\* Bound on the runs of rotate_log.
MaxRotations == 1

\* No tracker call in progress.
NoCall == [op |-> "none", pc |-> "done"]

\* The logs directory at start: signal_log.csv exists, no archive.  archive
\* is the rows of the archived files, oldest first, cut the rows the ledger
\* held at the latest rename, issued the number of rows created so far.
FreshDisk ==
    [exists |-> TRUE, archive |-> <<>>, cut |-> <<>>, rot |-> "idle",
     renames |-> 0, issued |-> 0]

\* _read_csv: the rows of the file, or the empty frame when the read fails.
read_csv(ok) == IF ok THEN ledger ELSE <<>>

\* The loop of check_outcomes on the frame df.
SweepFrame(df, up, now_unix) ==
    LET pending == { i \in DOMAIN df : pending_mask(df[i], now_unix) }
        steps   == [i \in pending |->
                       ResolveRow(df[i], UpstreamOf(up[i], df[i]), now_unix)]
    IN  [df      |-> [i \in DOMAIN df |->
                         IF i \in pending THEN steps[i].row ELSE df[i]],
         updated |-> SumUpdated(steps, pending)]

\* record_signal up to its _read_csv (tracker.py:231-234); _init_csv
\* creates the file if it is missing.
FileRecordBegin(oks) ==
    /\ call.pc = "done"
    /\ disk.rot # "none"
    /\ disk.issued < MaxRecords
    /\ \E ev \in Evaluations, ok \in oks :
          call' = [op |-> "record_signal", pc |-> "write", ev |-> ev,
                   df |-> read_csv(ok), read_failed |-> ~ok,
                   write_failed |-> FALSE, before |-> ledger,
                   epoch |-> disk.renames, ret |-> None]
    /\ disk' = [disk EXCEPT !.exists = TRUE]
    /\ UNCHANGED <<ledger, now, outcomeVars, fetchVars, botVars>>

\* record_signal from the OPEN check to its return (tracker.py:235-311);
\* _write_csv swallows the exception of a failed write.
FileRecordEnd(woks) ==
    /\ call.op = "record_signal" /\ call.pc = "write"
    /\ LET df == call.df IN
       IF df # <<>> /\ already_open(df, call.ev.token_address)
       THEN /\ call' = [call EXCEPT !.pc = "done"]
            /\ UNCHANGED <<ledger, disk>>
       ELSE \E wok \in woks :
               LET signal_id == disk.issued + 1 IN
               /\ ledger' = IF wok
                            THEN Append(df, NewRow(call.ev, signal_id, now))
                            ELSE ledger
               /\ disk' = [disk EXCEPT !.issued = signal_id,
                                       !.exists = disk.exists \/ wok]
               /\ call' = [call EXCEPT !.pc = "done", !.ret = Some(signal_id),
                                       !.write_failed = ~wok]
    /\ UNCHANGED <<now, outcomeVars, fetchVars, botVars>>

\* check_outcomes up to its _read_csv (tracker.py:323-324).
FileSweepBegin(oks) ==
    /\ call.pc = "done"
    /\ disk.rot # "none"
    /\ \E ok \in oks :
          call' = [op |-> "check_outcomes", pc |-> "write", ev |-> None,
                   df |-> read_csv(ok), read_failed |-> ~ok,
                   write_failed |-> FALSE, before |-> ledger,
                   epoch |-> disk.renames, ret |-> None]
    /\ disk' = [disk EXCEPT !.exists = TRUE]
    /\ UNCHANGED <<ledger, now, outcomeVars, fetchVars, botVars>>

\* check_outcomes from the selection to its return (tracker.py:325-382).
FileSweepEnd(woks) ==
    /\ call.op = "check_outcomes" /\ call.pc = "write"
    /\ \E up \in [{ i \in DOMAIN call.df : pending_mask(call.df[i], now) }
                     -> UpstreamKinds], wok \in woks :
          LET res == SweepFrame(call.df, up, now) IN
          IF res.updated > 0
          THEN /\ ledger' = IF wok THEN res.df ELSE ledger
               /\ disk' = [disk EXCEPT !.exists = disk.exists \/ wok]
               /\ call' = [call EXCEPT !.pc = "done",
                                       !.ret = Some(res.updated),
                                       !.write_failed = ~wok]
          ELSE /\ wok
               /\ call' = [call EXCEPT !.pc = "done", !.ret = Some(0)]
               /\ UNCHANGED <<ledger, disk>>
    /\ UNCHANGED <<now, outcomeVars, fetchVars, botVars>>

\* The next instant at which the ledger is looked at: one
\* OUTCOME_CHECK_DELAY after the start, then past OUTCOME_MAX_AGE.
NextCheck(t) ==
    IF t = 0 THEN OUTCOME_CHECK_DELAY ELSE OUTCOME_MAX_AGE + OUTCOME_CHECK_DELAY

\* Time passes between two tracker calls (a call lasts seconds).
FileTick ==
    /\ disk.rot # "none"
    /\ call.pc = "done"
    /\ now < NextCheck(now)
    /\ NextCheck(now) <= MaxHours * OUTCOME_CHECK_DELAY
    /\ now' = NextCheck(now)
    /\ UNCHANGED <<ledger, call, disk, outcomeVars, fetchVars, botVars>>

InitFile ==
    /\ ledger = <<>> /\ now = 0 /\ call = NoCall /\ disk = FreshDisk
    /\ fo_in = IdleFoIn /\ fo_out = IdleFoOut /\ calc = IdleCalc
    /\ rq = IdleRq /\ bot = IdleBot /\ bt = IdleBt

-----------------------------------------------------------------------------
(* Specification SpecFault: reads and writes of the ledger may fail        *)

FaultRecordBegin == FileRecordBegin(BOOLEAN)
FaultRecordEnd   == FileRecordEnd(BOOLEAN)
FaultSweepBegin  == FileSweepBegin(BOOLEAN)
FaultSweepEnd    == FileSweepEnd(BOOLEAN)

NextFault ==
    \/ FaultRecordBegin \/ FaultRecordEnd
    \/ FaultSweepBegin \/ FaultSweepEnd
    \/ FileTick

SpecFault == InitFile /\ [][NextFault]_vars

\* C13: a tracker call whose read of the ledger failed leaves every row
\* that was in the ledger when it read in place and unchanged.
C13_ReadFailureKeepsRecords ==
    [][(call.pc = "write" /\ call'.pc = "done" /\ call.read_failed)
         => \A i \in DOMAIN call.before :
               i \in DOMAIN ledger' /\ ledger'[i] = call.before[i]]_vars

\* C14: a tracker call whose write of the ledger failed does not return as
\* if it had written: record_signal returns no signal_id, check_outcomes
\* reports no updated record.
C14_WriteFailureReported ==
    (call.pc = "done" /\ call.op # "none" /\ call.write_failed)
       => /\ call.op = "record_signal" => IsNone(call.ret)
          /\ call.op = "check_outcomes" => call.ret = Some(0)

-----------------------------------------------------------------------------
(* Specification SpecRotate: rotate_log beside the running bot             *)
(*                                                                         *)
(* Reads and writes succeed here; the config editor runs rotate_log while  *)
(* the bot goes on making tracker calls.                                   *)

RotRecordBegin == FileRecordBegin({TRUE})
RotRecordEnd   == FileRecordEnd({TRUE})
RotSweepBegin  == FileSweepBegin({TRUE})
RotSweepEnd    == FileSweepEnd({TRUE})

\* rotate_log, tracker.py:173-177: os.rename of the ledger to the archive,
\* if the ledger exists.
RotateRename ==
    /\ disk.rot = "idle"
    /\ disk.renames < MaxRotations
    /\ IF disk.exists
       THEN /\ disk' = [disk EXCEPT !.rot = "renamed", !.exists = FALSE,
                                    !.archive = disk.archive \o ledger,
                                    !.cut = ledger,
                                    !.renames = disk.renames + 1]
            /\ ledger' = <<>>
       ELSE /\ disk' = [disk EXCEPT !.rot = "renamed", !.cut = <<>>,
                                    !.renames = disk.renames + 1]
            /\ ledger' = ledger
    /\ UNCHANGED <<now, call, outcomeVars, fetchVars, botVars>>

\* rotate_log, tracker.py:178-180: _init_csv creates the ledger unless a
\* file of that name exists again, and rotate_log returns.
RotateInit ==
    /\ disk.rot = "renamed"
    /\ disk' = [disk EXCEPT !.rot = "idle", !.exists = TRUE]
    /\ UNCHANGED <<ledger, now, call, outcomeVars, fetchVars, botVars>>

NextRotate ==
    \/ RotRecordBegin \/ RotRecordEnd
    \/ RotSweepBegin \/ RotSweepEnd
    \/ FileTick
    \/ RotateRename \/ RotateInit

SpecRotate == InitFile /\ [][NextRotate]_vars

\* The job queue starts check_outcomes_job every 15 minutes, the clock
\* moves, a call that has begun returns, rotate_log runs to its end.
SpecRotateFair ==
    /\ SpecRotate
    /\ SF_vars(RotSweepBegin) /\ WF_vars(RotSweepEnd)
    /\ WF_vars(RotRecordEnd)
    /\ SF_vars(FileTick)
    /\ WF_vars(RotateInit)

\* The rows of the archives and of the ledger.
AllRows == disk.archive \o ledger

SignalIds(rows) == { rows[i].signal_id : i \in DOMAIN rows }

\* C16: when rotate_log returns the ledger is empty; once it has returned,
\* the ledger holds no row it held at the rename, and the archive holds
\* every one of these rows.
C16_RotationCutsLedger ==
    /\ [][(disk.rot = "renamed" /\ disk'.rot = "idle") => ledger' = <<>>]_vars
    /\ []((disk.renames > 0 /\ disk.rot = "idle")
            => /\ SignalIds(ledger) \cap SignalIds(disk.cut) = {}
               /\ \A i \in DOMAIN disk.cut :
                     \E j \in DOMAIN disk.archive : disk.archive[j] = disk.cut[i])

\* The record of signal_id id was created at time 0 and is OPEN, in the
\* ledger or in an archive.
OpenSinceStart(id) ==
    \E i \in DOMAIN AllRows : /\ AllRows[i].signal_id = id
                              /\ AllRows[i].signal_time_unix = 0
                              /\ AllRows[i].outcome = "OPEN"

\* C17: whether or not rotate_log has run, a token has at most one OPEN
\* record (a new evaluation is suppressed while its record is OPEN), and a
\* record that is OPEN is resolved to a terminal outcome by a later sweep.
C17_RotationKeepsOpenSemantics ==
    /\ [](\A i, j \in DOMAIN AllRows :
            (/\ AllRows[i].token_address = AllRows[j].token_address
             /\ AllRows[i].outcome = "OPEN"
             /\ AllRows[j].outcome = "OPEN")
               => AllRows[i].signal_id = AllRows[j].signal_id)
    /\ \A id \in 1..MaxRecords : OpenSinceStart(id) ~> ~OpenSinceStart(id)

-----------------------------------------------------------------------------
(* Specification SpecRepro: reproducibility.calc_reproducibility           *)
(*                                                                         *)
(* Rows of the frame are numbered from 0 as in the code.  Prices, volumes, *)
(* RSI and ATR values are integers.  A rate or a score is an exact         *)
(* fraction [num, den] with den > 0; the figures used make no float        *)
(* comparison of the code fall within rounding distance of its threshold.  *)

RSI_PERIOD      == 9
ATR_PERIOD      == 14
VOL_WINDOW      == 20
PRIOR_WEIGHT    == 5
FULL_CONFIDENCE == 10

\* Bound on the rows of any kind in the frames enumerated row by row.
MaxTail == 3

\* Bound on the rows that follow the first min_idx rows in the frames that
\* repeat one or two rows.
MaxRun == 16

\* config.get_mc_params: the parameters of a market-cap band.
McBands ==
    { [volume_surge_min |-> 2, ohlcv_aggregate |-> 15, rsi_overbought |-> 75,
       atr_sl_mult |-> 1, atr_tp_mult |-> 2],
      [volume_surge_min |-> 3, ohlcv_aggregate |-> 5, rsi_overbought |-> 80,
       atr_sl_mult |-> 1, atr_tp_mult |-> 2] }

\* The rows the enumerated frames are made of.  rsi and atr are the values
\* of rsi_series and atr_series at the row.  With close 100 and atr 2 the
\* stop is 98 and the target 104 in both bands.
\*   P   quiet row, volume 1           P0  quiet row, volume 0
\*   X   RSI in range, touches 104     V   RSI in range, close above VWAP
\*   S   volume surge, close above     L   touches 98, RSI 50
\*   B   touches 98 and 104, RSI 80
BtKinds == {"X", "V", "S", "L", "B"}

BtCandle(kind) ==
    CASE kind = "P"  -> [high |-> 101, low |-> 99, close |-> 100, volume |-> 1,
                         rsi |-> 40, atr |-> 2]
      [] kind = "P0" -> [high |-> 101, low |-> 99, close |-> 100, volume |-> 0,
                         rsi |-> 40, atr |-> 2]
      [] kind = "X"  -> [high |-> 104, low |-> 99, close |-> 100, volume |-> 1,
                         rsi |-> 75, atr |-> 2]
      [] kind = "V"  -> [high |-> 101, low |-> 99, close |-> 101, volume |-> 1,
                         rsi |-> 60, atr |-> 2]
      [] kind = "S"  -> [high |-> 103, low |-> 101, close |-> 103, volume |-> 2,
                         rsi |-> 40, atr |-> 3]
      [] kind = "L"  -> [high |-> 100, low |-> 98, close |-> 100, volume |-> 1,
                         rsi |-> 50, atr |-> 2]
      [] kind = "B"  -> [high |-> 104, low |-> 98, close |-> 100, volume |-> 1,
                         rsi |-> 80, atr |-> 2]

\* df.iloc[i] of a frame given by the kinds of its rows.
Row(df, i) == BtCandle(df[i + 1])

\* lookforward = int(60 / aggregate), line 42.
lookforward(aggregate) == 60 \div aggregate

\* min_idx, line 47.
min_idx == RSI_PERIOD + ATR_PERIOD

\* Sum of volume over rows lo..hi.
RECURSIVE VolumeSum(_, _, _)
VolumeSum(df, lo, hi) ==
    IF lo > hi THEN 0 ELSE Row(df, hi).volume + VolumeSum(df, lo, hi - 1)

\* Sum of (high + low + close) * volume, three times typical * volume,
\* over rows lo..hi.
RECURSIVE TpvSum(_, _, _)
TpvSum(df, lo, hi) ==
    IF lo > hi THEN 0
    ELSE (Row(df, hi).high + Row(df, hi).low + Row(df, hi).close)
            * Row(df, hi).volume + TpvSum(df, lo, hi - 1)

\* rsi_series.iloc[i] and atr_series.iloc[i], lines 50-51 and 64-65.
rsi_series(df, i) == Row(df, i).rsi
atr_series(df, i) == Row(df, i).atr

\* vol_avg.iloc[i], line 54, times VOL_WINDOW: the sum of the volumes of the
\* VOL_WINDOW rows before row i, NaN while there are fewer.
vol_avg(df, i) ==
    IF i < VOL_WINDOW THEN None
    ELSE Some(VolumeSum(df, i - VOL_WINDOW, i - 1))

\* Variant of vwap_series that sums over the whole frame.
vwap_whole(df, i) ==
    [tpv |-> TpvSum(df, 0, Len(df) - 1), vol |-> VolumeSum(df, 0, Len(df) - 1)]

\* cum_tpv and cum_vol at row i, lines 58-60 (tpv is three times cum_tpv).
vwap_series(df, i) ==
    [tpv |-> TpvSum(df, 0, i), vol |-> VolumeSum(df, 0, i)]

\* sig_volume, lines 55, 67 and 73: vol_surge is 0.0 where vol_avg is NaN
\* or 0.
sig_volume(df, i, surge_min) ==
    LET a == vol_avg(df, i) IN
    IF IsNone(a) \/ Val(a) = 0 THEN FALSE
    ELSE VOL_WINDOW * Row(df, i).volume >= surge_min * Val(a)

\* sig_vwap, lines 61, 68 and 74: vwap is close_i where cum_vol is 0.
sig_vwap(df, i) ==
    LET c == vwap_series(df, i) IN
    IF c.vol = 0 THEN FALSE
    ELSE 3 * Row(df, i).close * c.vol > c.tpv

\* sig_rsi, line 75.
sig_rsi(df, i, rsi_overbought) ==
    50 < rsi_series(df, i) /\ rsi_series(df, i) <= rsi_overbought

\* high_quality, line 78.
high_quality(df, i, p) ==
    sig_volume(df, i, p.volume_surge_min) /\ sig_vwap(df, i)

\* Variant of rsi_only that lets the RSI signal pass unless both other
\* conditions hold.
rsi_only_unless_both(df, i, p) ==
    /\ sig_rsi(df, i, p.rsi_overbought)
    /\ ~(sig_volume(df, i, p.volume_surge_min) /\ sig_vwap(df, i))

\* rsi_only, line 79.
rsi_only(df, i, p) ==
    /\ sig_rsi(df, i, p.rsi_overbought)
    /\ ~(sig_volume(df, i, p.volume_surge_min) \/ sig_vwap(df, i))

\* The test of line 81.
fires(df, i, p) == high_quality(df, i, p) \/ rsi_only(df, i, p)

\* sl and tp, lines 87-88.
stop_level(df, i, p)   == Row(df, i).close - atr_series(df, i) * p.atr_sl_mult
target_level(df, i, p) == Row(df, i).close + atr_series(df, i) * p.atr_tp_mult

\* future_df, line 90: the rows i+1 .. i+lookforward that exist.
future_df(df, i, lf) == [lo |-> i + 1, hi |-> Min2(i + lf, Len(df) - 1)]

\* Variant of touch that tests the target first.
touch_target_first(row, sl, tp) ==
    IF row.high >= tp THEN "win"
    ELSE IF row.low <= sl THEN "loss"
    ELSE "open"

\* Lines 94-105: what one future row decides.
touch(row, sl, tp) ==
    LET hit_sl == row.low <= sl
        hit_tp == row.high >= tp
    IN  IF hit_sl /\ hit_tp THEN "both"
        ELSE IF hit_tp THEN "win"
        ELSE IF hit_sl THEN "loss"
        ELSE "open"

\* The loop of lines 92-105 over rows k..hi.
RECURSIVE forward_scan(_, _, _, _, _)
forward_scan(df, k, hi, sl, tp) ==
    IF k > hi THEN "open"
    ELSE LET o == touch(Row(df, k), sl, tp)
         IN  IF o # "open" THEN o ELSE forward_scan(df, k + 1, hi, sl, tp)

\* success_rate, lines 117 and 120.
success_rate(success_count, signal_count) ==
    IF signal_count = 0 THEN [num |-> 0, den |-> 1]
    ELSE [num |-> success_count, den |-> signal_count]

\* Variant of adjusted_rate without the prior.
adjusted_rate_raw(success_count, signal_count) ==
    IF signal_count = 0 THEN [num |-> 0, den |-> 1]
    ELSE [num |-> success_count, den |-> signal_count]

\* adjusted_rate, lines 113-121: PRIOR_WEIGHT * PRIOR_RATE is
\* PRIOR_WEIGHT / 2; numerator and denominator are doubled.
adjusted_rate(success_count, signal_count) ==
    IF signal_count = 0 THEN [num |-> 0, den |-> 1]
    ELSE [num |-> 2 * success_count + PRIOR_WEIGHT,
          den |-> 2 * (signal_count + PRIOR_WEIGHT)]

\* Variant of confidence without the cap at 1.
confidence_uncapped(signal_count) ==
    [num |-> signal_count, den |-> FULL_CONFIDENCE]

\* confidence, line 124.
confidence(signal_count) ==
    [num |-> Min2(signal_count, FULL_CONFIDENCE), den |-> FULL_CONFIDENCE]

\* raw_score, lines 133-140, for the rate a.
raw_score(a) ==
    IF 4 * a.num >= 3 * a.den THEN [num |-> 20, den |-> 1]
    ELSE IF 2 * a.num >= a.den
    THEN [num |-> 10 * a.den + 10 * (4 * a.num - 2 * a.den), den |-> a.den]
    ELSE IF 4 * a.num >= a.den
    THEN [num |-> 10 * (4 * a.num - a.den), den |-> a.den]
    ELSE [num |-> 0, den |-> 1]

\* reproducibility_score, line 143.
reproducibility_score(raw, conf) ==
    [num |-> raw.num * conf.num, den |-> raw.den * conf.den]

\* The frames: min_idx quiet rows, then rows of BtKinds.
Prefix(kind) == [j \in 1..min_idx |-> kind]

RECURSIVE TailsUpTo(_)
TailsUpTo(n) ==
    IF n = 0 THEN {<<>>}
    ELSE LET shorter == TailsUpTo(n - 1)
         IN  shorter \cup { Append(t, k) : t \in shorter, k \in BtKinds }

\* Every row of up to MaxTail rows is of any kind; quiet rows follow, as
\* many as make the loop evaluate each of these rows.
Enumerated(p) ==
    { Prefix("P") \o t \o [j \in 1..(lookforward(p.ohlcv_aggregate) + 1) |-> "P"] :
        t \in TailsUpTo(MaxTail) }

\* One or two kinds in turn, up to MaxRun rows.
Runs ==
    { Prefix(pk) \o [j \in 1..n |-> IF j % 2 = 1 THEN k[1] ELSE k[2]] :
        pk \in {"P", "P0"}, k \in BtKinds \X BtKinds, n \in 0..MaxRun }

\* The frames run with the band p.
BtFrames(p) == Enumerated(p) \cup Runs

\* calc_reproducibility is called: lines 34-61.
InitRepro ==
    /\ ledger = IdleLedger /\ now = 0 /\ call = IdleCall /\ rq = IdleRq
    /\ bot = IdleBot /\ fo_in = IdleFoIn /\ fo_out = IdleFoOut
    /\ calc = IdleCalc /\ disk = IdleDisk
    /\ \E p \in McBands :
          \E df \in BtFrames(p) :
             bt = [pc |-> "loop", df |-> df, p |-> p, i |-> min_idx,
                   signal_count |-> 0, success_count |-> 0, log |-> <<>>]

\* The end of range(min_idx, len(df) - lookforward - 1), line 63.
loop_end(df, p) == Len(df) - lookforward(p.ohlcv_aggregate) - 1

\* One pass of the loop, lines 63-108.  log keeps, for every pass, the row
\* looked at, whether the signal fired, the levels, the rows of future_df
\* and the outcome.
BacktestPass ==
    /\ bt.pc = "loop"
    /\ bt.i < loop_end(bt.df, bt.p)
    /\ LET df  == bt.df
           p   == bt.p
           i   == bt.i
           sl  == stop_level(df, i, p)
           tp  == target_level(df, i, p)
           fut == future_df(df, i, lookforward(p.ohlcv_aggregate))
           outcome == forward_scan(df, fut.lo, fut.hi, sl, tp)
       IN  IF ~fires(df, i, p)
           THEN bt' = [bt EXCEPT
                         !.i = i + 1,
                         !.log = Append(@, [i |-> i, fired |-> FALSE])]
           ELSE bt' = [bt EXCEPT
                         !.i = i + 1,
                         !.signal_count = @ + 1,
                         !.success_count = IF outcome = "win" THEN @ + 1 ELSE @,
                         !.log = Append(@, [i |-> i, fired |-> TRUE,
                                            sl |-> sl, tp |-> tp,
                                            lo |-> fut.lo, hi |-> fut.hi,
                                            outcome |-> outcome])]
    /\ UNCHANGED <<fo_in, fo_out, calc, ledgerVars, fetchVars, botVars, fileVars>>

\* After the loop: lines 110-157.
BacktestReturn ==
    /\ bt.pc = "loop"
    /\ ~(bt.i < loop_end(bt.df, bt.p))
    /\ LET a == adjusted_rate(bt.success_count, bt.signal_count)
       IN  bt' = [bt EXCEPT !.pc = "returned"] @@
                 [success_rate  |-> success_rate(bt.success_count, bt.signal_count),
                  adjusted_rate |-> a,
                  reproducibility_score |->
                      reproducibility_score(raw_score(a),
                                            confidence(bt.signal_count))]
    /\ UNCHANGED <<fo_in, fo_out, calc, ledgerVars, fetchVars, botVars, fileVars>>

NextRepro == BacktestPass \/ BacktestReturn

SpecRepro == InitRepro /\ [][NextRepro]_vars

\* The passes of the loop made so far, and those in which the signal fired.
Passes == IF bt.pc = "idle" THEN {} ELSE { bt.log[k] : k \in DOMAIN bt.log }
Fired  == { e \in Passes : e.fired }

\* C21 as stated: the signal fires at row i exactly when volume surge and
\* VWAP breakout both hold, or the RSI is in range and the two do not both
\* hold.
C21_FiresUnlessBoth ==
    \A e \in Passes :
        LET A == sig_volume(bt.df, e.i, bt.p.volume_surge_min)
            B == sig_vwap(bt.df, e.i)
            R == sig_rsi(bt.df, e.i, bt.p.rsi_overbought)
        IN  e.fired <=> ((A /\ B) \/ (R /\ ~(A /\ B)))

\* C21 (amended): the signal fires at row i exactly when volume surge and
\* VWAP breakout both hold, or the RSI is in range and neither of the two
\* holds.
C21_FiresExactlyWhen ==
    \A e \in Passes :
        LET A == sig_volume(bt.df, e.i, bt.p.volume_surge_min)
            B == sig_vwap(bt.df, e.i)
            R == sig_rsi(bt.df, e.i, bt.p.rsi_overbought)
        IN  e.fired <=> ((A /\ B) \/ (R /\ ~A /\ ~B))

\* A pass with the RSI in range and exactly one of the two other conditions,
\* a pass with both, and a pass with the RSI alone.
C21_Witness ==
    /\ \E e \in Passes :
          /\ ~e.fired
          /\ sig_rsi(bt.df, e.i, bt.p.rsi_overbought)
          /\ sig_vwap(bt.df, e.i)
          /\ ~sig_volume(bt.df, e.i, bt.p.volume_surge_min)
    /\ \E e \in Fired :
          sig_volume(bt.df, e.i, bt.p.volume_surge_min) /\ sig_vwap(bt.df, e.i)
    /\ \E e \in Fired :
          /\ sig_rsi(bt.df, e.i, bt.p.rsi_overbought)
          /\ ~sig_volume(bt.df, e.i, bt.p.volume_surge_min)
          /\ ~sig_vwap(bt.df, e.i)

\* C22 as stated: the returned adjusted_rate is
\* (success_count + 2.5) / (signal_count + 5) for every signal_count >= 0.
C22_AdjustedRateAlways ==
    bt.pc = "returned" =>
        bt.adjusted_rate.num * 2 * (bt.signal_count + PRIOR_WEIGHT)
            = (2 * bt.success_count + PRIOR_WEIGHT) * bt.adjusted_rate.den

\* C22 (amended): the returned adjusted_rate is
\* (success_count + 2.5) / (signal_count + 5) when signal_count >= 1, and 0
\* when signal_count = 0.
C22_AdjustedRate ==
    bt.pc = "returned" =>
        /\ bt.success_count >= 0 /\ bt.success_count <= bt.signal_count
        /\ bt.signal_count >= 1 =>
              bt.adjusted_rate.num * 2 * (bt.signal_count + PRIOR_WEIGHT)
                  = (2 * bt.success_count + PRIOR_WEIGHT) * bt.adjusted_rate.den
        /\ bt.signal_count = 0 => bt.adjusted_rate.num = 0

\* A result with some signals won and some not.
C22_Witness ==
    /\ bt.pc = "returned"
    /\ bt.signal_count >= 3
    /\ bt.success_count >= 1
    /\ bt.success_count < bt.signal_count

\* C23: for a frame in which no row satisfies the signal condition,
\* calc_reproducibility returns signal_count 0 and reproducibility_score 0.
C23_NoSignalScoresZero ==
    ( /\ bt.pc = "returned"
      /\ \A i \in 0..(Len(bt.df) - 1) :
            LET A == sig_volume(bt.df, i, bt.p.volume_surge_min)
                B == sig_vwap(bt.df, i)
                R == sig_rsi(bt.df, i, bt.p.rsi_overbought)
            IN  ~((A /\ B) \/ (R /\ ~(A \/ B))) )
    => /\ bt.signal_count = 0
       /\ bt.reproducibility_score.num = 0

\* A returned run of several passes over a frame without a signal, in which
\* some row had the RSI in range.
C23_Witness ==
    /\ bt.pc = "returned"
    /\ Len(bt.log) >= 2
    /\ \A i \in 0..(Len(bt.df) - 1) : ~fires(bt.df, i, bt.p)
    /\ \E e \in Passes : sig_rsi(bt.df, e.i, bt.p.rsi_overbought)
    /\ bt.signal_count = 0
    /\ bt.reproducibility_score.num = 0

\* C24: when every signal is a success and there are FULL_CONFIDENCE signals
\* or more the score is 20; with fewer it is at most
\* 20 * signal_count / FULL_CONFIDENCE.
C24_AllWinsScore ==
    (bt.pc = "returned" /\ bt.success_count = bt.signal_count) =>
        /\ bt.signal_count >= FULL_CONFIDENCE =>
              bt.reproducibility_score.num = 20 * bt.reproducibility_score.den
        /\ bt.signal_count < FULL_CONFIDENCE =>
              bt.reproducibility_score.num * FULL_CONFIDENCE
                  <= 20 * bt.signal_count * bt.reproducibility_score.den

\* A result with more than FULL_CONFIDENCE signals, all of them won.
C24_Witness ==
    /\ bt.pc = "returned"
    /\ bt.signal_count > FULL_CONFIDENCE
    /\ bt.success_count = bt.signal_count
    /\ bt.reproducibility_score.num = 20 * bt.reproducibility_score.den

\* df.iloc[0 : i + 1]: the frame cut behind row i.
UpTo(df, i) == SubSeq(df, 1, i + 1)

C29_EvaluatedIndices ==
    bt.pc = "returned" =>
        LET lf == lookforward(bt.p.ohlcv_aggregate) IN
        /\ { e.i : e \in Passes } = min_idx..(Len(bt.df) - lf - 1)
        /\ \A e \in Fired : e.lo = e.i + 1 /\ e.hi = e.i + lf

\* The row at which the first touch of the stop or the target behind row i
\* is a touch of the target alone, if there is one within lf rows.
TargetAloneFirst(df, i, lf, sl, tp) ==
    \E k \in (i + 1)..(i + lf) :
        /\ k <= Len(df) - 1
        /\ Row(df, k).high >= tp
        /\ ~(Row(df, k).low <= sl)
        /\ \A j \in (i + 1)..(k - 1) :
              ~(Row(df, j).high >= tp) /\ ~(Row(df, j).low <= sl)

\* C30: a pass increments success_count only for a signal whose first
\* touching row behind it touches the target alone; a first touching row
\* that touches both or the stop alone, or no touch within lookforward rows,
\* leaves success_count as it is; success_count <= signal_count always.
C30_SuccessOnlyTargetFirst ==
    /\ [][ (bt.pc = "loop" /\ bt'.pc = "loop") =>
              LET i  == bt.i
                  lf == lookforward(bt.p.ohlcv_aggregate)
                  sl == Row(bt.df, i).close - Row(bt.df, i).atr * bt.p.atr_sl_mult
                  tp == Row(bt.df, i).close + Row(bt.df, i).atr * bt.p.atr_tp_mult
              IN  /\ bt'.success_count \in {bt.success_count, bt.success_count + 1}
                  /\ bt'.success_count = bt.success_count + 1 =>
                        /\ bt'.signal_count = bt.signal_count + 1
                        /\ TargetAloneFirst(bt.df, i, lf, sl, tp)
                  /\ ~TargetAloneFirst(bt.df, i, lf, sl, tp) =>
                        bt'.success_count = bt.success_count ]_vars
    /\ [](bt.pc # "idle" => bt.success_count <= bt.signal_count)

\* A finished run with a signal won and a signal whose first touching row
\* touched both levels.
C30_Witness ==
    /\ bt.pc = "returned"
    /\ bt.success_count >= 1
    /\ bt.success_count < bt.signal_count
    /\ \E e \in Fired : e.outcome = "win"
    /\ \E e \in Fired : e.outcome = "both"

-----------------------------------------------------------------------------
(* Specification SpecWarmup: the indicators and calculate_score on short   *)
(* series                                                                  *)
(*                                                                         *)
(* A series is given by its length n and by what its rows yield where      *)
(* they are enough: the RSI and ATR of the last row, the volume of the     *)
(* last row and of each row before it, the deviation of the close from     *)
(* the VWAP and the place of the close in the range, both in percent.      *)
(* Series here are shorter than min_idx, so the loop of                    *)
(* calc_reproducibility makes no pass.  Sub-scores are in half points.     *)

MaxSeries == 21

\* What a call gives: a float, the float NaN, or an exception.
Value(x)   == [kind |-> "value", v |-> x]
NaN        == [kind |-> "nan"]
Raise(exc) == [kind |-> "raise", exc |-> exc]
NotCalled  == [kind |-> "notcalled"]

\* indicators.calc_rsi, lines 10-19: diff() leaves n - 1 observations and
\* ewm(min_periods = period) gives NaN below period observations; iloc[-1]
\* of an empty series raises IndexError.
calc_rsi(n, r) ==
    IF n = 0 THEN Raise("IndexError")
    ELSE IF n - 1 < RSI_PERIOD THEN NaN
    ELSE Value(r)

\* indicators.calc_atr, lines 22-37.
calc_atr(n, a) ==
    IF n = 0 THEN Raise("IndexError")
    ELSE IF n < ATR_PERIOD THEN NaN
    ELSE Value(a)

\* indicators.calc_volume_surge, lines 50-54: iloc[-21:-1] is the rows that
\* exist, each with volume prev; the mean of no row is NaN and avg > 0 is
\* then false.
calc_volume_surge(n, recent, prev) ==
    IF n = 0 THEN Raise("IndexError")
    ELSE IF n = 1 \/ ~(prev > 0) THEN Value([num |-> 0, den |-> 1])
    ELSE Value([num |-> recent, den |-> prev])

\* calc_rsi_series and calc_atr_series on a series shorter than the period.
calc_rsi_series_fails(n) == n < RSI_PERIOD
calc_atr_series_fails(n) == n < ATR_PERIOD

\* vol_score, scorer.py:48-56, for vol_surge = vs.num / vs.den.
vol_score(vs, surge_min) ==
    IF vs.num >= surge_min * vs.den THEN 50
    ELSE IF 10 * vs.num >= 7 * surge_min * vs.den
    THEN (50 * (10 * vs.num - 7 * surge_min * vs.den)) \div (3 * surge_min * vs.den)
    ELSE 0

\* vwap_score, scorer.py:59: close > vwap is vwap_dev > 0.
vwap_score(dev) == IF dev > 0 THEN 40 ELSE 0

\* Variant of rsi_score_penalty whose second branch ends before
\* rsi_overbought + 5.
rsi_score_penalty_open(rsi, rsi_ob) ==
    IF rsi.kind = "nan" THEN [rsi_score |-> 0, penalty |-> 0]
    ELSE IF 50 < rsi.v /\ rsi.v <= rsi_ob THEN [rsi_score |-> 40, penalty |-> 0]
    ELSE IF rsi_ob < rsi.v /\ rsi.v < rsi_ob + 5
    THEN [rsi_score |-> 40, penalty |-> 0 - 6 * (rsi.v - rsi_ob)]
    ELSE IF rsi.v > rsi_ob + 5 THEN [rsi_score |-> 40, penalty |-> 0 - 30]
    ELSE [rsi_score |-> 0, penalty |-> 0]

\* rsi_score and penalty, scorer.py:62-75; every comparison with NaN is
\* false.
rsi_score_penalty(rsi, rsi_ob) ==
    IF rsi.kind = "nan" THEN [rsi_score |-> 0, penalty |-> 0]
    ELSE IF 50 < rsi.v /\ rsi.v <= rsi_ob THEN [rsi_score |-> 40, penalty |-> 0]
    ELSE IF rsi_ob < rsi.v /\ rsi.v <= rsi_ob + 5
    THEN [rsi_score |-> 40, penalty |-> 0 - 6 * (rsi.v - rsi_ob)]
    ELSE IF rsi.v > rsi_ob + 5 THEN [rsi_score |-> 40, penalty |-> 0 - 30]
    ELSE [rsi_score |-> 0, penalty |-> 0]

\* liq_score, scorer.py:78-83.
liq_score(liquidity) ==
    IF liquidity >= 50000 THEN 30
    ELSE IF liquidity >= 10000 THEN (30 * (liquidity - 10000)) \div 40000
    ELSE 0

\* The three axes of price_position.calc_price_position, lines 71-109.
axis1(range_pct) ==
    IF range_pct <= 20 THEN 5 ELSE IF range_pct <= 40 THEN 4
    ELSE IF range_pct <= 60 THEN 3 ELSE IF range_pct <= 80 THEN 2 ELSE 1

axis2(vwap_dev) ==
    IF vwap_dev <= 0 - 5 THEN 5 ELSE IF vwap_dev <= 0 - 1 THEN 4
    ELSE IF vwap_dev <= 1 THEN 3 ELSE IF vwap_dev <= 5 THEN 2 ELSE 1

axis3(rsi) ==
    IF rsi.kind = "nan" THEN 1
    ELSE IF rsi.v <= 30 THEN 5 ELSE IF rsi.v <= 45 THEN 4
    ELSE IF rsi.v <= 55 THEN 3 ELSE IF rsi.v <= 70 THEN 2 ELSE 1

\* Variant of pps that truncates the mean.
pps_floor(a1, a2, a3) == Max2(1, Min2(5, (a1 + a2 + a3) \div 3))

\* pps, lines 112-113: round of a third is never a tie.
pps(a1, a2, a3) == Max2(1, Min2(5, (2 * (a1 + a2 + a3) + 3) \div 6))

\* _PPS_BONUS, lines 6-12, in half points.
pps_bonus(rating) ==
    CASE rating = 5 -> 20 [] rating = 4 -> 10 [] rating = 3 -> 0
      [] rating = 2 -> 0 - 10 [] rating = 1 -> 0 - 20

\* calculate_score is called.
InitWarmup ==
    /\ ledger = IdleLedger /\ now = 0 /\ call = IdleCall /\ rq = IdleRq
    /\ bot = IdleBot /\ fo_in = IdleFoIn /\ fo_out = IdleFoOut
    /\ disk = IdleDisk /\ bt = IdleBt
    /\ \E n \in 0..MaxSeries, r \in {40, 60, 90}, recent \in {0, 17, 30},
          prev \in {0, 10}, dev \in {0 - 6, 0, 6}, range_pct \in {10, 90},
          liquidity \in {0, 30000}, p \in McBands :
          calc = [pc |-> "called", n |-> n, rsi_in |-> r, atr_in |-> 2,
                  recent |-> recent, prev |-> prev, dev |-> dev,
                  range_pct |-> range_pct, liquidity |-> liquidity, p |-> p]

\* scorer.py:36-92: the indicators and the sub-scores.  An exception of a
\* call ends calculate_score.
ScoreIndicators ==
    /\ calc.pc = "called"
    /\ LET n   == calc.n
           rsi == calc_rsi(n, calc.rsi_in)
           atr == IF rsi.kind = "raise" THEN NotCalled
                  ELSE calc_atr(n, calc.atr_in)
           vs  == IF rsi.kind = "raise" \/ atr.kind = "raise" THEN NotCalled
                  ELSE calc_volume_surge(n, calc.recent, calc.prev)
           ind == [rsi |-> rsi, atr |-> atr, vol_surge |-> vs]
       IN  IF \E f \in DOMAIN ind : ind[f].kind = "raise"
           THEN calc' = [pc |-> "raised", exc |-> "IndexError"] @@ ind @@ calc
           ELSE IF calc_rsi_series_fails(n) \/ calc_atr_series_fails(n)
           THEN calc' = [pc |-> "raised", exc |-> "InsufficientData"] @@ ind @@ calc
           ELSE LET rp   == rsi_score_penalty(rsi, calc.p.rsi_overbought)
                    none == adjusted_rate(0, 0)
                IN  calc' = [pc |-> "args",
                             vol_score   |-> vol_score(vs.v, calc.p.volume_surge_min),
                             vwap_score  |-> vwap_score(calc.dev),
                             rsi_score   |-> rp.rsi_score,
                             penalty     |-> rp.penalty,
                             liq_score   |-> liq_score(calc.liquidity),
                             repro_score |-> reproducibility_score(
                                                raw_score(none), confidence(0)).num,
                             pps_bonus   |-> pps_bonus(pps(axis1(calc.range_pct),
                                                           axis2(calc.dev),
                                                           axis3(rsi)))]
                            @@ ind @@ calc
    /\ UNCHANGED <<fo_in, fo_out, bt, ledgerVars, fetchVars, botVars, fileVars>>

NextWarmup == ScoreIndicators \/ CalculateScore

SpecWarmup == InitWarmup /\ [][NextWarmup]_vars

\* C26: on a series shorter than the warm-up window of an indicator the
\* indicator function raises InsufficientData instead of returning a value,
\* and calculate_score fails instead of returning a score.
C26_ShortSeriesFails ==
    (calc.pc \in {"args", "returned", "raised"} /\ "n" \in DOMAIN calc) =>
        /\ (calc.n < RSI_PERIOD /\ calc.rsi.kind # "notcalled") =>
              calc.rsi = Raise("InsufficientData")
        /\ (calc.n < ATR_PERIOD /\ calc.atr.kind # "notcalled") =>
              calc.atr = Raise("InsufficientData")
        /\ (calc.n < VOL_WINDOW + 1 /\ calc.vol_surge.kind # "notcalled") =>
              calc.vol_surge = Raise("InsufficientData")
        /\ calc.n < VOL_WINDOW + 1 => calc.pc = "raised"

-----------------------------------------------------------------------------
(* Specification SpecPps: price_position.calc_price_position               *)
(*                                                                         *)
(* The frame is given by the place of the close in the range and by the    *)
(* deviation of the close from the VWAP, both in percent, one value at or  *)
(* behind every threshold of the code, and by the RSI handed in.           *)

RangePcts == {20, 40, 60, 80, 100}
VwapDevs  == {0 - 5, 0 - 1, 1, 5, 6}
RsiInputs == {NaN, Value(30), Value(45), Value(55), Value(70), Value(71)}

InitPps ==
    /\ ledger = IdleLedger /\ now = 0 /\ call = IdleCall /\ rq = IdleRq
    /\ bot = IdleBot /\ fo_in = IdleFoIn /\ fo_out = IdleFoOut
    /\ disk = IdleDisk /\ bt = IdleBt
    /\ \E r \in RangePcts, v \in VwapDevs, x \in RsiInputs :
          calc = [pc |-> "pps_called", range_pct |-> r, vwap_dev |-> v, rsi |-> x]

\* calc_price_position, lines 58-123.
CalcPricePosition ==
    /\ calc.pc = "pps_called"
    /\ LET a1 == axis1(calc.range_pct)
           a2 == axis2(calc.vwap_dev)
           a3 == axis3(calc.rsi)
           rating == pps(a1, a2, a3)
       IN  calc' = [pc |-> "pps_returned", axis1 |-> a1, axis2 |-> a2,
                    axis3 |-> a3, pps |-> rating, pps_bonus |-> pps_bonus(rating)]
                   @@ calc
    /\ UNCHANGED <<fo_in, fo_out, bt, ledgerVars, fetchVars, botVars, fileVars>>

NextPps == CalcPricePosition

SpecPps == InitPps /\ [][NextPps]_vars

\* C31: for every triple of axis ratings the rating returned is the whole
\* number nearest to their mean, the mean is never halfway between two
\* whole numbers, the rating is within 1..5, and the bonus is
\* 5 * (rating - 3) points (10 * (rating - 3) half points).
C31_RatingAndBonus ==
    calc.pc = "pps_returned" =>
        LET sum == calc.axis1 + calc.axis2 + calc.axis3 IN
        /\ {calc.axis1, calc.axis2, calc.axis3} \subseteq 1..5
        /\ 2 * (sum % 3) # 3
        /\ 3 * calc.pps - sum \in (0 - 1)..1
        /\ calc.pps \in 1..5
        /\ calc.pps_bonus = 10 * (calc.pps - 3)

\* The axes 5, 5 and 4 (mean 4.67) are rated 5 with the bonus +10.
C31_Witness ==
    /\ calc.pc = "pps_returned"
    /\ <<calc.axis1, calc.axis2, calc.axis3>> = <<5, 5, 4>>
    /\ calc.pps = 5
    /\ calc.pps_bonus = 20

-----------------------------------------------------------------------------
(* Specification SpecRsi: the RSI part of scorer.calculate_score           *)

\* calc_rsi returns a value between 0 and 100, or NaN.
RsiValues == {NaN} \cup { Value(r) : r \in 0..100 }

InitRsi ==
    /\ ledger = IdleLedger /\ now = 0 /\ call = IdleCall /\ rq = IdleRq
    /\ bot = IdleBot /\ fo_in = IdleFoIn /\ fo_out = IdleFoOut
    /\ disk = IdleDisk /\ bt = IdleBt
    /\ \E x \in RsiValues, p \in McBands :
          calc = [pc |-> "rsi_called", rsi |-> x, rsi_ob |-> p.rsi_overbought]

\* scorer.py:61-75.
RsiScore ==
    /\ calc.pc = "rsi_called"
    /\ LET rp == rsi_score_penalty(calc.rsi, calc.rsi_ob)
       IN  calc' = [pc |-> "rsi_returned", rsi_score |-> rp.rsi_score,
                    penalty |-> rp.penalty] @@ calc
    /\ UNCHANGED <<fo_in, fo_out, bt, ledgerVars, fetchVars, botVars, fileVars>>

NextRsi == RsiScore

SpecRsi == InitRsi /\ [][NextRsi]_vars

\* C32: the RSI score is 20 points when rsi > 50 and 0 otherwise; the
\* penalty is 0 up to rsi_overbought, falls by 3 points for each point of
\* RSI from there to -15 at rsi_overbought + 5 and is -15 above; a penalty
\* other than 0 comes only with an RSI score of 20.  (Half points: 40, 6
\* and 30.)
C32_RsiScoreAndPenalty ==
    calc.pc = "rsi_returned" =>
        LET above(x) == calc.rsi.kind = "value" /\ calc.rsi.v > x IN
        /\ calc.rsi_score = IF above(50) THEN 40 ELSE 0
        /\ ~above(calc.rsi_ob) => calc.penalty = 0
        /\ (above(calc.rsi_ob) /\ ~above(calc.rsi_ob + 5)) =>
              calc.penalty * 5 = (0 - 30) * (calc.rsi.v - calc.rsi_ob)
        /\ above(calc.rsi_ob + 5) => calc.penalty = 0 - 30
        /\ calc.penalty # 0 => calc.rsi_score = 40

\* An RSI of exactly rsi_overbought + 5 has the full penalty.
C32_Witness ==
    /\ calc.pc = "rsi_returned"
    /\ calc.rsi = Value(calc.rsi_ob + 5)
    /\ calc.rsi_score = 40
    /\ calc.penalty = 0 - 30

-----------------------------------------------------------------------------
(* Specification SpecResolve: the sweep over one record, against every     *)
(* enumerated upstream candle list                                         *)

\* check_outcomes (lines 328-382) where the upstream answers the requests
\* for selected row i with resps[i].
check_outcomes_on(resps) ==
    LET df       == ledger
        now_unix == now
        pending  == { i \in DOMAIN df : pending_mask(df[i], now_unix) }
    IN  \E steps \in { [i \in pending |->
                           ResolveRow(df[i], resps[i], now_unix)] } :
          LET new_df  == [i \in DOMAIN df |->
                            IF i \in pending THEN steps[i].row ELSE df[i]]
              updated == SumUpdated(steps, pending)
          IN  /\ ledger' = IF updated > 0 THEN new_df ELSE ledger
              /\ call' = [op |-> "check_outcomes", token |-> "",
                          ret |-> Some(updated),
                          fetched |-> { i \in pending : steps[i].fetched },
                          nodata  |-> { i \in pending : steps[i].nodata },
                          raised  |-> { i \in pending : steps[i].raised }]

\* The candle lists the upstream can send for a record.
RowRawLists(row) ==
    RawLists(row.signal_time_unix,
             [entry_price |-> row.entry_price, sl_price |-> row.sl_price,
              tp_price |-> row.tp_price])

\* One record, written by record_signal at a signal time, seen by the first
\* sweep that selects it (age OUTCOME_CHECK_DELAY).
InitResolve ==
    /\ \E ev \in Evaluations, su \in SignalTimes :
          /\ ledger = <<NewRow(ev, 1, su)>>
          /\ now = su + OUTCOME_CHECK_DELAY
    /\ call = IdleCall
    /\ fo_in = IdleFoIn /\ fo_out = IdleFoOut /\ rq = IdleRq
    /\ bot = IdleBot /\ calc = IdleCalc /\ disk = IdleDisk /\ bt = IdleBt

\* A sweep: the upstream answers the request for the selected record with
\* any enumerated candle list (one without window rows is "no data").
SweepResponses ==
    LET pending == { i \in DOMAIN ledger : pending_mask(ledger[i], now) }
    IN  IF pending = {} THEN { <<>> }
        ELSE [pending -> { Always(Ok(raw)) : raw \in RowRawLists(ledger[1]) }]

ResolveSweep ==
    /\ \E resps \in SweepResponses : check_outcomes_on(resps)
    /\ UNCHANGED <<now, outcomeVars, fetchVars, botVars, fileVars>>

\* The next sweep comes OUTCOME_CHECK_DELAY later (bot.py, run_repeating);
\* the clock stops once the record is OUTCOME_UNKNOWN_AFTER old, the age
\* from which no sweep leaves it OPEN.
ResolveElapse ==
    /\ \E i \in DOMAIN ledger : Age(ledger[i]) < OUTCOME_UNKNOWN_AFTER
    /\ now' = now + OUTCOME_CHECK_DELAY
    /\ call' = IdleCall
    /\ UNCHANGED <<ledger, outcomeVars, fetchVars, botVars, fileVars>>

NextResolve == ResolveSweep \/ ResolveElapse

SpecResolve == InitResolve /\ [][NextResolve]_vars

ResolvedOutcomes == {"WIN", "LOSS", "BOTH", "WIN+", "LOSS-"}

\* The rows for which the sweep just made got a result from _fetch_outcome.
GotResult == IF call.op = "check_outcomes" THEN call.fetched \ call.nodata ELSE {}

\* C36: a row merged from a result of _fetch_outcome has price_60m defined
\* and one of the outcomes WIN, LOSS, BOTH, WIN+, LOSS-; a row becomes
\* UNKNOWN only in a sweep, when its fetch yielded no data and its age is
\* at least 2 hours.
C36_ResultResolvedUnknownOnlyNoData ==
    [][ /\ call'.op = "check_outcomes"
            => \A i \in call'.fetched \ call'.nodata :
                  /\ ~IsNone(ledger'[i].price_60m)
                  /\ ledger'[i].outcome \in ResolvedOutcomes
        /\ \A i \in DOMAIN ledger' :
              (ledger'[i].outcome = "UNKNOWN" /\ ledger[i].outcome # "UNKNOWN")
                 => /\ call'.op = "check_outcomes"
                    /\ i \in call'.nodata
                    /\ Age(ledger[i]) >= 7200 ]_vars

\* C36 witness: a sweep merged a result whose window holds no touch and
\* whose minute-60 close is below entry (LOSS-).
C36_Witness ==
    /\ GotResult # {}
    /\ \E i \in GotResult :
          /\ ledger[i].outcome = "LOSS-"
          /\ ledger[i].sl_hit = Some(FALSE) /\ ledger[i].tp_hit = Some(FALSE)
          /\ ~IsNone(ledger[i].price_60m)
          /\ Val(ledger[i].price_60m) < ledger[i].entry_price

\* The rows resolved from candle data.
FromCandles == { i \in DOMAIN ledger : ledger[i].outcome \in ResolvedOutcomes }

\* C37: in every record resolved from candle data, WIN implies tp_hit, LOSS
\* implies sl_hit, BOTH implies both flags, WIN+ and LOSS- imply neither
\* flag; tp_hit holds exactly when high_60m >= tp_price and sl_hit exactly
\* when low_60m <= sl_price.
C37_FlagsAgree ==
    \A i \in FromCandles :
       LET r == ledger[i] IN
       /\ r.outcome = "WIN"  => r.tp_hit = Some(TRUE)
       /\ r.outcome = "LOSS" => r.sl_hit = Some(TRUE)
       /\ r.outcome = "BOTH" => (r.sl_hit = Some(TRUE) /\ r.tp_hit = Some(TRUE))
       /\ r.outcome \in {"WIN+", "LOSS-"}
             => (r.sl_hit = Some(FALSE) /\ r.tp_hit = Some(FALSE))
       /\ r.tp_hit = Some(Val(r.high_60m) >= r.tp_price)
       /\ r.sl_hit = Some(Val(r.low_60m) <= r.sl_price)

\* C37 witness: a record resolved LOSS (the stop was touched first) whose
\* window later reached the target: both flags are set.
C37_Witness ==
    \E i \in FromCandles :
       /\ ledger[i].outcome = "LOSS"
       /\ ledger[i].sl_hit = Some(TRUE) /\ ledger[i].tp_hit = Some(TRUE)
       /\ Val(ledger[i].high_60m) >= ledger[i].tp_price
       /\ Val(ledger[i].low_60m) <= ledger[i].sl_price

-----------------------------------------------------------------------------
(* Specification SpecRestart: the construction of NotificationCache        *)
(*                                                                         *)
(* tracker.py writes LOG_FILE = <module dir>/logs/signal_log.csv (the      *)
(* variable ledger); cache.py reads _LOG_FILE = <module dir>/signal_log.csv.*)
(* Nothing in the program writes the latter: it is absent, or holds        *)
(* whatever was put there (disk.beside).                                   *)

\* config.NOTIFY_TTL, in seconds.
NOTIFY_TTL == 7200

\* The rows record_signal can have written at time t.
RowsAt(t) ==
    { NewRow([ev EXCEPT !.notified = n,
                        !.score_total = IF n THEN 70 ELSE 65], 1, t) :
        ev \in Evaluations, n \in BOOLEAN }

\* Ledgers of one or two rows of different tokens, oldest first, written at
\* time 0 and OUTCOME_CHECK_DELAY.
RestartLedgers ==
    {<<>>} \cup { <<r>> : r \in RowsAt(0) \cup RowsAt(OUTCOME_CHECK_DELAY) }
           \cup { <<p[1], p[2]>> :
                     p \in { q \in RowsAt(0) \X RowsAt(OUTCOME_CHECK_DELAY) :
                               q[1].token_address # q[2].token_address } }

\* What lies at cache._LOG_FILE: no file, an empty table, or a copy of the
\* ledger made at some time.
BesideFiles(df) ==
    {None} \cup { Some(SubSeq(df, 1, n)) : n \in 0..Len(df) }

\* The rows _restore_from_log keeps (lines 27-30).
restorable(row, clock, ttl) ==
    row.notified /\ clock - row.signal_time_unix < ttl

\* _restore_from_log (lines 20-40): the store after construction, token to
\* the latest signal time among the rows kept, None where no row is kept.
restore_from_log(file, clock, ttl) ==
    [k \in TokenAddresses |->
        IF IsNone(file) THEN None
        ELSE LET df   == Val(file)
                 kept == { i \in DOMAIN df :
                             df[i].token_address = k /\ restorable(df[i], clock, ttl) }
             IN  IF kept = {} THEN None
                 ELSE Some(df[CHOOSE i \in kept :
                                 \A j \in kept :
                                    df[j].signal_time_unix <= df[i].signal_time_unix
                              ].signal_time_unix)]

\* is_recent (lines 42-44).
is_recent(store, key, clock, ttl) ==
    ~IsNone(store[key]) /\ clock - Val(store[key]) < ttl

InitRestart ==
    /\ ledger \in RestartLedgers
    /\ now = OUTCOME_CHECK_DELAY
    /\ call = IdleCall
    /\ \E f \in BesideFiles(ledger) : disk = [rot |-> "none", beside |-> f]
    /\ bot = [loop |-> "down"]
    /\ fo_in = IdleFoIn /\ fo_out = IdleFoOut /\ rq = IdleRq
    /\ calc = IdleCalc /\ bt = IdleBt

\* The bot starts: bot.py:39 constructs the cache.
CacheConstruct ==
    /\ bot.loop = "down"
    /\ bot' = [loop |-> "constructed",
               store |-> restore_from_log(disk.beside, now, NOTIFY_TTL)]
    /\ UNCHANGED <<ledgerVars, outcomeVars, fetchVars, fileVars>>

\* cache.mark (lines 46-47) after a notification.
CacheMark ==
    /\ bot.loop \in {"constructed", "running"}
    /\ \E k \in TokenAddresses :
          bot' = [loop |-> "running", store |-> [bot.store EXCEPT ![k] = Some(now)]]
    /\ UNCHANGED <<ledgerVars, outcomeVars, fetchVars, fileVars>>

\* The process ends; the store is lost.
BotExit ==
    /\ bot.loop \in {"constructed", "running"}
    /\ bot' = [loop |-> "down"]
    /\ UNCHANGED <<ledgerVars, outcomeVars, fetchVars, fileVars>>

NextRestart == CacheConstruct \/ CacheMark \/ BotExit \/ Tick

SpecRestart == InitRestart /\ [][NextRestart]_vars

\* C34: immediately after the construction of the cache, every token the
\* ledger records as notified less than TTL seconds ago is recent.
C34_RestoredFromLedger ==
    bot.loop = "constructed"
       => \A i \in DOMAIN ledger :
             restorable(ledger[i], now, NOTIFY_TTL)
                => is_recent(bot.store, ledger[i].token_address, now, NOTIFY_TTL)

\* The cache does agree with the file it reads.
RestoredFromBeside ==
    (bot.loop = "constructed" /\ ~IsNone(disk.beside))
       => \A i \in DOMAIN Val(disk.beside) :
             restorable(Val(disk.beside)[i], now, NOTIFY_TTL)
                => is_recent(bot.store, Val(disk.beside)[i].token_address,
                             now, NOTIFY_TTL)

-----------------------------------------------------------------------------
(* Notifications of one token by overlapping scans (specification SpecBot) *)

\* C38: a token is notified at most once while the bot runs (the wall clock
\* does not move in SpecBot, so all notifications fall in one NOTIFY_TTL
\* window), also when the manual and the scheduled scan overlap.
C38_NotifiedOnce ==
    \A k \in TokenAddresses : bot.sent[k] <= 1

-----------------------------------------------------------------------------
(* Specification SpecCmd: the command handlers of bot.py                   *)
(*                                                                         *)
(* The Application is built without concurrent_updates (bot.py:497-502):   *)
(* updates are handled one after the other.  A handler changes the         *)
(* globals and the job queue before its only await (the reply), so each    *)
(* handler is one step.  An argument is a tuple of one-character strings.  *)

DigitChars == <<"0", "1", "2", "3", "4", "5", "6", "7", "8", "9">>
IsDigitChar(c) == \E d \in DOMAIN DigitChars : DigitChars[d] = c
DigitVal(c) == (CHOOSE d \in DOMAIN DigitChars : DigitChars[d] = c) - 1

\* str.isdigit: not empty and every character a digit.
isdigit(a) == a # <<>> /\ \A i \in DOMAIN a : IsDigitChar(a[i])

\* The value of a run of digits.
RECURSIVE DigitsValue(_)
DigitsValue(a) ==
    IF a = <<>> THEN 0
    ELSE 10 * DigitsValue(SubSeq(a, 1, Len(a) - 1)) + DigitVal(a[Len(a)])

Unsigned(a) == IF a # <<>> /\ a[1] \in {"-", "+"} THEN Tail(a) ELSE a
Negative(a) == a # <<>> /\ a[1] = "-"

\* int(str): an optional sign and digits; None stands for ValueError.
ParseInt(a) ==
    IF isdigit(Unsigned(a))
    THEN Some(IF Negative(a) THEN 0 - DigitsValue(Unsigned(a))
              ELSE DigitsValue(Unsigned(a)))
    ELSE None

\* str.upper on the characters used.
UpperChar(c) ==
    CASE c = "a" -> "A" [] c = "b" -> "B" [] c = "c" -> "C" [] c = "f" -> "F"
      [] c = "i" -> "I" [] c = "k" -> "K" [] c = "m" -> "M" [] c = "n" -> "N"
      [] OTHER -> c
upper(a) == [i \in DOMAIN a |-> UpperChar(a[i])]

\* float(str) for an optional sign followed by digits, by digits "." digit,
\* by nan or by inf, in either case; None stands for ValueError.
ParseFloat(a) ==
    LET u == upper(Unsigned(a))
        n == Len(u)
    IN  IF u = <<"N", "A", "N">> THEN Some(FNaN)
        ELSE IF u = <<"I", "N", "F">> THEN Some(FInf(Negative(a)))
        ELSE IF isdigit(u)
        THEN Some(Fin(IF Negative(a) THEN 0 - 10 * DigitsValue(u)
                      ELSE 10 * DigitsValue(u)))
        ELSE IF n >= 3 /\ u[n - 1] = "." /\ isdigit(SubSeq(u, 1, n - 2))
                       /\ IsDigitChar(u[n])
        THEN LET t == 10 * DigitsValue(SubSeq(u, 1, n - 2)) + DigitVal(u[n])
             IN  Some(Fin(IF Negative(a) THEN 0 - t ELSE t))
        ELSE None

\* float * k.
FMul(f, k) == IF f.kind = "fin" THEN Fin(f.v * k) ELSE f

\* a >= b and a < b on floats: false when either side is NaN.
FGe(a, b) ==
    CASE a.kind = "nan" \/ b.kind = "nan" -> FALSE
      [] a.kind = "inf" -> ~a.neg \/ (b.kind = "inf" /\ b.neg)
      [] b.kind = "inf" -> b.neg
      [] OTHER -> a.v >= b.v
FLt(a, b) ==
    CASE a.kind = "nan" \/ b.kind = "nan" -> FALSE
      [] OTHER -> ~FGe(a, b)

\* int(float): truncation toward zero; ValueError for NaN, OverflowError
\* for an infinity.
FloatToInt(f) ==
    CASE f.kind = "nan" -> [exc |-> "ValueError"]
      [] f.kind = "inf" -> [exc |-> "OverflowError"]
      [] OTHER -> [exc |-> "", int |-> IF f.v >= 0 THEN f.v \div 10
                                        ELSE 0 - ((0 - f.v) \div 10)]

\* The handler returned after the reply r, or raised.
Handled(b, name, args, r) == [b EXCEPT !.cmd = Some([name |-> name, args |-> args]),
                                       !.reply = Some(r)]

JobsNamed(jobs, name) == SelectSeq(jobs, LAMBDA j : j.name = name)

\* job.schedule_removal() for every job of the name.
RemoveJobs(jobs, name) == SelectSeq(jobs, LAMBDA j : j.name # name)

\* Variant of cmd_start without the scan_running test.
cmd_start_unguarded(b) ==
    Handled([b EXCEPT !.scan_running = TRUE,
                      !.jobs = b.jobs \o
                         <<[name |-> "auto_scan", interval |-> b.scan_interval],
                           [name |-> "outcome_check", interval |-> 900]>>],
            "start", <<>>, "started")

\* cmd_start (lines 226-255).
cmd_start(b) ==
    IF b.scan_running THEN Handled(b, "start", <<>>, "already running")
    ELSE Handled([b EXCEPT !.scan_running = TRUE,
                           !.jobs = b.jobs \o
                              <<[name |-> "auto_scan", interval |-> b.scan_interval],
                                [name |-> "outcome_check", interval |-> 900]>>],
                 "start", <<>>, "started")

\* cmd_stop (lines 268-274).
cmd_stop(b) ==
    Handled([b EXCEPT !.jobs = RemoveJobs(RemoveJobs(b.jobs, "auto_scan"),
                                          "outcome_check"),
                      !.scan_running = FALSE],
            "stop", <<>>, "stopped")

\* cmd_threshold (lines 293-306).
cmd_threshold(b, args) ==
    IF args = <<>> \/ ~isdigit(args[1])
    THEN Handled(b, "threshold", args, "usage")
    ELSE LET val == Val(ParseInt(args[1])) IN
         IF ~(0 <= val /\ val <= 100)
         THEN Handled(b, "threshold", args, "range")
         ELSE Handled([b EXCEPT !.notify_threshold = val],
                      "threshold", args, "ok")

\* The seconds cmd_setinterval parses (lines 358-366): exc is the exception
\* raised, "" if none.
interval_seconds(raw) ==
    IF raw # <<>> /\ raw[Len(raw)] = "m"
    THEN LET f == ParseFloat(SubSeq(raw, 1, Len(raw) - 1)) IN
         IF IsNone(f) THEN [exc |-> "ValueError"]
         ELSE FloatToInt(FMul(Val(f), 60))
    ELSE LET n == ParseInt(raw) IN
         IF IsNone(n) THEN [exc |-> "ValueError"]
         ELSE [exc |-> "", int |-> Val(n)]

\* cmd_setinterval (lines 347-394).  An OverflowError is not caught: the
\* handler raises before any assignment.
cmd_setinterval(b, args) ==
    IF args = <<>> THEN Handled(b, "setinterval", args, "usage")
    ELSE LET p == interval_seconds(args[1]) IN
         IF p.exc = "ValueError" THEN Handled(b, "setinterval", args, "format")
         ELSE IF p.exc # "" THEN Handled(b, "setinterval", args, "raised")
         ELSE IF p.int < 60 THEN Handled(b, "setinterval", args, "minimum")
         ELSE IF b.scan_running
         THEN Handled([b EXCEPT !.scan_interval = p.int,
                                !.jobs = RemoveJobs(b.jobs, "auto_scan") \o
                                   <<[name |-> "auto_scan", interval |-> p.int]>>],
                      "setinterval", args, "ok")
         ELSE Handled([b EXCEPT !.scan_interval = p.int],
                      "setinterval", args, "ok")

\* parse_value of cmd_setmc (lines 407-417).
parse_value(a) ==
    LET u == upper(a) IN
    IF u # <<>> /\ u[Len(u)] = "M"
    THEN LET f == ParseFloat(SubSeq(u, 1, Len(u) - 1)) IN
         IF IsNone(f) THEN None ELSE Some(FMul(Val(f), 1000000))
    ELSE IF u # <<>> /\ u[Len(u)] = "K"
    THEN LET f == ParseFloat(SubSeq(u, 1, Len(u) - 1)) IN
         IF IsNone(f) THEN None ELSE Some(FMul(Val(f), 1000))
    ELSE ParseFloat(u)

\* cmd_setmc (lines 397-442).
cmd_setmc(b, args) ==
    IF Len(args) # 2 THEN Handled(b, "setmc", args, "usage")
    ELSE LET mc_min == parse_value(args[1])
             mc_max == parse_value(args[2])
         IN  IF IsNone(mc_min) \/ IsNone(mc_max)
             THEN Handled(b, "setmc", args, "format")
             ELSE IF FGe(Val(mc_min), Val(mc_max))
             THEN Handled(b, "setmc", args, "order")
             ELSE IF FLt(Val(mc_min), Fin(0))
             THEN Handled(b, "setmc", args, "negative")
             ELSE Handled([b EXCEPT !.mc_min = Val(mc_min),
                                    !.mc_max = Val(mc_max)],
                          "setmc", args, "ok")

\* The arguments sent with /threshold.
ThresholdArgs ==
    { <<>>, << <<"a", "b", "c">> >>, << <<"7", "5">> >>,
      << <<"1", "0", "1">> >>, << <<"-", "5">> >> }

\* The arguments sent with /setinterval.
IntervalArgs ==
    { <<>>, << <<"a", "b", "c">> >>, << <<"5", "9">> >>, << <<"6", "0">> >>,
      << <<"5", "m">> >>, << <<"0", ".", "5", "m">> >>,
      << <<"n", "a", "n", "m">> >>, << <<"i", "n", "f", "m">> >> }

\* The words sent with /setmc, and the argument lists made of them.
McWords ==
    { <<"5", "0", "0", "K">>, <<"3", "0", "m">>, <<"-", "1">>,
      <<"a", "b", "c">>, <<"n", "a", "n">> }
McArgs ==
    { <<>> } \cup { <<w>> : w \in McWords } \cup (McWords \X McWords)

InitCmd == InitBot

\* The handlers run when the event loop is free and no other handler (the
\* manual scan of cmd_scan) is in progress.
HandlerCanRun == bot.loop = "free" /\ bot.task["manual"].pc = "idle"

CmdStart ==
    /\ HandlerCanRun
    /\ bot' = cmd_start(bot)
    /\ UNCHANGED <<ledgerVars, outcomeVars, fetchVars, fileVars>>

CmdStop ==
    /\ HandlerCanRun
    /\ bot' = cmd_stop(bot)
    /\ UNCHANGED <<ledgerVars, outcomeVars, fetchVars, fileVars>>

CmdThreshold ==
    /\ HandlerCanRun
    /\ \E args \in ThresholdArgs : bot' = cmd_threshold(bot, args)
    /\ UNCHANGED <<ledgerVars, outcomeVars, fetchVars, fileVars>>

CmdSetInterval ==
    /\ HandlerCanRun
    /\ \E args \in IntervalArgs : bot' = cmd_setinterval(bot, args)
    /\ UNCHANGED <<ledgerVars, outcomeVars, fetchVars, fileVars>>

CmdSetMc ==
    /\ HandlerCanRun
    /\ \E args \in McArgs : bot' = cmd_setmc(bot, args)
    /\ UNCHANGED <<ledgerVars, outcomeVars, fetchVars, fileVars>>

NextCmd == CmdStart \/ CmdStop \/ CmdThreshold \/ CmdSetInterval \/ CmdSetMc

SpecCmd == InitCmd /\ [][NextCmd]_vars

\* The settings and the job queue.
Settings(b) ==
    <<b.notify_threshold, b.scan_interval, b.mc_min, b.mc_max, b.jobs>>

\* The last command handled was /threshold, /setinterval or /setmc and
\* was accepted, or was rejected (a usage or error reply, or an exception).
Setter(b)   == ~IsNone(b.cmd) /\ Val(b.cmd).name \in {"threshold", "setinterval", "setmc"}
Accepted(b) == Setter(b) /\ b.reply = Some("ok")
Rejected(b) == Setter(b) /\ b.reply # Some("ok")

McInRange(b) == FGe(b.mc_min, Fin(0)) /\ FLt(b.mc_min, b.mc_max)

\* C35: a /threshold, /setinterval or /setmc command that is not accepted
\* leaves notify_threshold, scan_interval, MC_MIN, MC_MAX and the jobs
\* unchanged; after an accepted command 0 <= notify_threshold <= 100,
\* scan_interval >= 60 and 0 <= MC_MIN < MC_MAX.
C35_RejectedUnchangedAcceptedInRange ==
    /\ [][ Rejected(bot') => Settings(bot') = Settings(bot) ]_vars
    /\ [](Accepted(bot)
            => /\ 0 <= bot.notify_threshold /\ bot.notify_threshold <= 100
               /\ bot.scan_interval >= 60
               /\ McInRange(bot))

\* What holds of the code: the same, the range of MC_MIN and MC_MAX only
\* when neither is NaN.
RejectedUnchangedFiniteInRange ==
    /\ [][ Rejected(bot') => Settings(bot') = Settings(bot) ]_vars
    /\ [](Accepted(bot)
            => /\ 0 <= bot.notify_threshold /\ bot.notify_threshold <= 100
               /\ bot.scan_interval >= 60
               /\ (bot.mc_min # FNaN /\ bot.mc_max # FNaN) => McInRange(bot))

Scheduled(name) == Len(JobsNamed(bot.jobs, name))

\* C39: at most one auto_scan job and at most one outcome_check job are
\* scheduled, scan_running is true exactly when both are scheduled, and a
\* /start while already running schedules nothing.
C39_OneJobEachWhileRunning ==
    /\ [](/\ Scheduled("auto_scan") <= 1
          /\ Scheduled("outcome_check") <= 1
          /\ bot.scan_running
                <=> (Scheduled("auto_scan") = 1 /\ Scheduled("outcome_check") = 1))
    /\ [][ (bot.scan_running /\ bot'.cmd = Some([name |-> "start", args |-> <<>>]))
              => bot'.jobs = bot.jobs ]_vars

\* C39 witness: /start was answered "already running" after /setinterval
\* had rescheduled the scan while running: one job of each name, the scan
\* job with the new interval.
C39_Witness ==
    /\ bot.cmd = Some([name |-> "start", args |-> <<>>])
    /\ bot.reply = Some("already running")
    /\ bot.scan_running
    /\ JobsNamed(bot.jobs, "auto_scan") = <<[name |-> "auto_scan", interval |-> 60]>>
    /\ Scheduled("outcome_check") = 1

-----------------------------------------------------------------------------
(* Specification SpecThreshold: the jobs of the bot and /threshold         *)
(*                                                                         *)
(* The scheduled scan runs in a task of the job queue: while it waits at   *)
(* an await the Application handles the next update, here /threshold.      *)

NextThreshold == NextBot \/ CmdThreshold

SpecThreshold == InitBot /\ [][NextThreshold]_vars

\* C33: in every ledger record, notified is true exactly when score_total
\* is at least the notify_threshold stored in the same record.
C33_NotifiedIffAtStoredThreshold ==
    \A i \in DOMAIN ledger :
       ledger[i].notified <=> ledger[i].score_total >= ledger[i].notify_threshold

-----------------------------------------------------------------------------
(* Specification SpecSweepFair: the sweep run again and again              *)
(*                                                                         *)
(* cmd_start schedules check_outcomes_job with run_repeating (bot.py:      *)
(* 239-245): as long as the bot runs, a sweep that has something to do is  *)
(* eventually made, and the clock goes on.  The ledger is not rotated and  *)
(* its reads and writes succeed; the upstream answers as it likes.         *)

\* Records created OPEN at time 0.
InitSweep ==
    /\ ledger \in OldLedgers \ {<<>>}
    /\ now = 0
    /\ call = IdleCall
    /\ fo_in = IdleFoIn /\ fo_out = IdleFoOut /\ rq = IdleRq
    /\ bot = IdleBot /\ calc = IdleCalc /\ disk = IdleDisk /\ bt = IdleBt

NextSweep == CheckOutcomes \/ Tick

SpecSweep == InitSweep /\ [][NextSweep]_vars

\* A sweep now has a row to resolve (then CheckOutcomes is enabled: the
\* upstream may answer with data).
SweepDue == \E i \in DOMAIN ledger : pending_mask(ledger[i], now)

\* Weak fairness of the clock, and of the sweep written out with SweepDue
\* for its enabledness: a sweep that stays due is eventually made.
SpecSweepFair ==
    /\ SpecSweep
    /\ WF_vars(Tick)
    /\ ([]<>(~SweepDue) \/ []<><<CheckOutcomes>>_vars)

Resolved(i) == i \in DOMAIN ledger /\ ledger[i].outcome # "OPEN"

\* C40: every record created OPEN eventually has a terminal outcome,
\* whatever the upstream returns at each sweep.
C40_OpenEventuallyTerminal ==
    \A i \in 1..MaxRecords :
       (i \in DOMAIN ledger /\ ledger[i].outcome = "OPEN") ~> Resolved(i)

\* C40 witness: of two records, one became UNKNOWN at the age of 2 hours
\* and the other stayed OPEN (its fetches raised) until a sweep past 10
\* hours made it EXPIRED.
C40_Witness ==
    /\ Len(ledger) = 2
    /\ \E i, j \in DOMAIN ledger :
          /\ ledger[i].outcome = "UNKNOWN"
          /\ ledger[i].outcome_checked_at = Some(OUTCOME_UNKNOWN_AFTER)
          /\ ledger[j].outcome = "EXPIRED"
          /\ Age(ledger[j]) > OUTCOME_MAX_AGE
====
